---------------------------- MODULE Spec2Model ----------------------------
(***************************************************************************)
(* A model of the retrieval pipeline of the quotation micro-service:       *)
(* RAGCore (src/src/services/rag_core.py) and the answer composer          *)
(* get_llm_response_rag (src/src/services/llm_utils.py).                   *)
(*                                                                         *)
(* Text is a sequence of characters, each character a one-character        *)
(* string.  A string the code builds from literals and text (an answer, a  *)
(* prompt) is a sequence of pieces: a literal of the source is one piece,  *)
(* a character of user text is one piece.                                  *)
(***************************************************************************)
EXTENDS Integers, Sequences, FiniteSets, TLC

VARIABLES
    FAISS_AVAILABLE,   \* rag_core.py:8-13, fixed when the module is imported
    PYTHONHASHSEED,    \* the process's string-hash seed: the iteration order of a set
    document_paths,    \* RAGCore.__init__ argument
    chunk_size,        \* RAGCore.__init__ argument
    chunk_overlap,     \* RAGCore.__init__ argument
    documents,         \* self.documents
    chunks,            \* self.chunks
    embeddings,        \* self.embeddings
    index,             \* self.index
    source_map,        \* self.source_map
    pc,                \* "new" before __init__ runs, "returned" when a call has
                       \* given its outcome, "ready" when the caller may call
    call,              \* the last call made on the pipeline or the composer
    outcome,           \* what that call gave back to its caller
    services,          \* the mock connector objects of the RFQ workflow
    files              \* the output files the mock connectors write

pipeline == <<documents, chunks, embeddings, index, source_map>>

vars == <<FAISS_AVAILABLE, PYTHONHASHSEED, document_paths, chunk_size,
          chunk_overlap, documents, chunks, embeddings, index, source_map, pc,
          call, outcome, services, files>>

\* Python's None
None == [py |-> "None"]

(***************************************************************************)
(* Bounds of the model.                                                    *)
(***************************************************************************)
MaxPaths == 2

\* the longest of the short texts the embedding is computed for
MaxTextLen == 3

MaxTopK == 3

HashMod == 1009

DistScale == 10000

Min(a, b) == IF a <= b THEN a ELSE b

Range(s) == {s[i] : i \in 1..Len(s)}

\* The sequence f written out as a tuple, so that its elements are computed once.
AsTuple(f) == f \o <<>>

(***************************************************************************)
(* Python str operations used by the code.                                 *)
(***************************************************************************)
UpperCase == <<"A","B","C","D","E","F","G","H","I","J","K","L","M",
               "N","O","P","Q","R","S","T","U","V","W","X","Y","Z">>

LowerCase == <<"a","b","c","d","e","f","g","h","i","j","k","l","m",
               "n","o","p","q","r","s","t","u","v","w","x","y","z">>

Whitespace == {" ", "\n", "\t"}

\* The Arabic question mark U+061F: not whitespace, not in "?!.,", no case.
ArabicQuestionMark == "U+061F"

lower_char(c) ==
    IF \E i \in 1..26 : UpperCase[i] = c
    THEN LowerCase[CHOOSE i \in 1..26 : UpperCase[i] = c]
    ELSE c

\* str.lower()
lower(text) == AsTuple([i \in 1..Len(text) |-> lower_char(text[i])])

RECURSIVE lstrip(_, _)
lstrip(text, cs) ==
    IF text # <<>> /\ Head(text) \in cs THEN lstrip(Tail(text), cs) ELSE text

RECURSIVE rstrip(_, _)
rstrip(text, cs) ==
    IF text # <<>> /\ text[Len(text)] \in cs
    THEN rstrip(SubSeq(text, 1, Len(text) - 1), cs)
    ELSE text

\* str.strip(chars); str.strip() is strip(text, Whitespace)
strip(text, cs) == rstrip(lstrip(text, cs), cs)

\* sub in text
contains(text, sub) ==
    \E i \in 1..(Len(text) + 1) :
        /\ i + Len(sub) - 1 <= Len(text)
        /\ SubSeq(text, i, i + Len(sub) - 1) = sub

RECURSIVE split_ws(_, _)
\* str.split(): the maximal runs of non-whitespace characters, in order
split_ws(text, cur) ==
    IF text = <<>>
    THEN IF cur = <<>> THEN <<>> ELSE <<cur>>
    ELSE IF Head(text) \in Whitespace
         THEN (IF cur = <<>> THEN <<>> ELSE <<cur>>) \o split_ws(Tail(text), <<>>)
         ELSE split_ws(Tail(text), Append(cur, Head(text)))

split(text) == split_ws(text, <<>>)

RECURSIVE join(_, _)
\* sep.join(parts)
join(parts, sep) ==
    IF parts = <<>> THEN <<>>
    ELSE IF Len(parts) = 1 THEN parts[1]
    ELSE parts[1] \o sep \o join(Tail(parts), sep)

\* text[:n]
prefix_slice(text, n) == SubSeq(text, 1, Min(n, Len(text)))

\* seq[i] for a Python list and a 0-based index; a negative index counts from the end
py_index(seq, i) == IF i < 0 THEN seq[Len(seq) + i + 1] ELSE seq[i + 1]

(***************************************************************************)
(* The file system the document paths are read from.                       *)
(***************************************************************************)
Doc1En ==
    [dir |-> "data", name |-> "document1_en.txt"]

Doc1EnArchived ==
    [dir |-> "archive", name |-> "document1_en.txt"]

Doc2Ar ==
    [dir |-> "data", name |-> "document2_ar.txt"]

EmptyDoc ==
    [dir |-> "data", name |-> "empty.txt"]

MissingDoc ==
    [dir |-> "data", name |-> "missing.txt"]

Paths == {Doc1En, Doc1EnArchived, Doc2Ar, EmptyDoc, MissingDoc}

\* open(path, 'r', encoding='utf-8') succeeds and f.read() decodes
Loadable(path) == path # MissingDoc

FileContent(path) ==
    CASE path = Doc1En -> <<"a"," ","f","o","x","."," ","F","o","x"," ","r","u","n","s">>
      [] path = Doc1EnArchived -> <<"t","h","e"," ","c","a","t">>
      [] path = Doc2Ar -> <<"k","a","l","b"," ","h","a","y","a","w","a","n">>
      [] path = EmptyDoc -> <<>>
      [] OTHER -> <<>>

\* os.path.basename
basename(path) == path.name

(***************************************************************************)
(* The text splitter RAGCore.__init__ configures (rag_core.py:38-43):      *)
(* langchain's RecursiveCharacterTextSplitter with its default separators, *)
(* keep_separator = True, strip_whitespace = True and length_function =    *)
(* len.  cs is chunk_size and co is chunk_overlap.                         *)
(***************************************************************************)
Separators == << <<"\n","\n">>, <<"\n">>, <<" ">>, <<>> >>

is_at(text, sep, i) ==
    /\ i + Len(sep) - 1 <= Len(text)
    /\ SubSeq(text, i, i + Len(sep) - 1) = sep

RECURSIVE split_from(_, _, _, _)
\* the pieces of text from position i on, a separator kept at the start of the
\* piece that follows it; cur is the piece being read
split_from(text, sep, i, cur) ==
    IF i > Len(text) THEN <<cur>>
    ELSE IF is_at(text, sep, i)
         THEN <<cur>> \o split_from(text, sep, i + Len(sep), sep)
         ELSE split_from(text, sep, i + 1, Append(cur, text[i]))

\* _split_text_with_regex(text, separator, keep_separator=True)
split_text_with_regex(text, sep) ==
    LET splits == IF sep = <<>>
                  THEN [i \in 1..Len(text) |-> <<text[i]>>]
                  ELSE split_from(text, sep, 1, <<>>)
    IN  SelectSeq(splits, LAMBDA s : s # <<>>)

\* TextSplitter._join_docs: the stripped text; the code's None is the empty text
join_docs(docs, sep) == strip(join(docs, sep), Whitespace)

RECURSIVE pop_front(_, _, _, _, _, _)
\* the while loop of _merge_splits: drop leading splits of current_doc until the
\* overlap budget and the size budget for the next split (of length len) are met
pop_front(cur, total, len, seplen, cs, co) ==
    IF \/ total > co
       \/ /\ total + len + (IF Len(cur) > 0 THEN seplen ELSE 0) > cs
          /\ total > 0
    THEN pop_front(Tail(cur),
                   total - (Len(cur[1]) + (IF Len(cur) > 1 THEN seplen ELSE 0)),
                   len, seplen, cs, co)
    ELSE [current_doc |-> cur, total |-> total]

RECURSIVE merge_from(_, _, _, _, _, _, _, _)
\* the for loop of _merge_splits from split number i on
merge_from(splits, i, docs, cur, total, sep, cs, co) ==
    IF i > Len(splits)
    THEN LET doc == join_docs(cur, sep)
         IN  IF doc = <<>> THEN docs ELSE Append(docs, doc)
    ELSE LET d == splits[i]
             len == Len(d)
             over == total + len + (IF Len(cur) > 0 THEN Len(sep) ELSE 0) > cs
             doc == join_docs(cur, sep)
             docs1 == IF over /\ Len(cur) > 0 /\ doc # <<>>
                      THEN Append(docs, doc) ELSE docs
             kept == IF over /\ Len(cur) > 0
                     THEN pop_front(cur, total, len, Len(sep), cs, co)
                     ELSE [current_doc |-> cur, total |-> total]
             cur1 == Append(kept.current_doc, d)
             total1 == kept.total + len + (IF Len(cur1) > 1 THEN Len(sep) ELSE 0)
         IN  merge_from(splits, i + 1, docs1, cur1, total1, sep, cs, co)

\* TextSplitter._merge_splits(splits, separator)
merge_splits(splits, sep, cs, co) ==
    merge_from(splits, 1, <<>>, <<>>, 0, sep, cs, co)

\* the first separator of seps that occurs in text (the empty one always does)
pick_separator(text, seps) ==
    CHOOSE i \in 1..Len(seps) :
        /\ seps[i] = <<>> \/ contains(text, seps[i])
        /\ \A j \in 1..(i - 1) : seps[j] # <<>> /\ ~contains(text, seps[j])

RECURSIVE split_text_rec(_, _, _, _)
RECURSIVE split_each(_, _, _, _, _, _, _)
\* the for loop of _split_text over splits, from split number i on
split_each(splits, i, good, final, rest, cs, co) ==
    IF i > Len(splits)
    THEN IF good # <<>> THEN final \o merge_splits(good, <<>>, cs, co) ELSE final
    ELSE LET s == splits[i]
         IN  IF Len(s) < cs
             THEN split_each(splits, i + 1, Append(good, s), final, rest, cs, co)
             ELSE LET flushed == IF good # <<>>
                                 THEN final \o merge_splits(good, <<>>, cs, co)
                                 ELSE final
                      deeper == IF rest = <<>>
                                THEN <<s>>
                                ELSE split_text_rec(s, rest, cs, co)
                  IN  split_each(splits, i + 1, <<>>, flushed \o deeper, rest, cs, co)

\* RecursiveCharacterTextSplitter._split_text(text, separators)
split_text_rec(text, seps, cs, co) ==
    LET k == pick_separator(text, seps)
        sep == seps[k]
        rest == IF sep = <<>> THEN <<>> ELSE SubSeq(seps, k + 1, Len(seps))
    IN  split_each(split_text_with_regex(text, sep), 1, <<>>, <<>>, rest, cs, co)

RECURSIVE windows_from(_, _, _, _)
\* the stripped windows of cs characters of text from position i on, each window
\* starting cs + co characters after the one before
windows_from(text, i, cs, co) ==
    IF i > Len(text) THEN <<>>
    ELSE LET window == strip(SubSeq(text, i, Min(i + cs - 1, Len(text))), Whitespace)
         IN  (IF window = <<>> THEN <<>> ELSE <<window>>)
             \o windows_from(text, i + cs + co, cs, co)

\* a splitter that steps past the overlap instead of back by it
split_text_stepping_past_overlap(text, cs, co) == windows_from(text, 1, cs, co)

\* self.text_splitter.split_text(text)
split_text(text, cs, co) == split_text_rec(text, Separators, cs, co)

(***************************************************************************)
(* The embedding provider, llm_utils.get_mock_embedding.                   *)
(*                                                                         *)
(* sha256 is not computed here: a small digest of the text stands for      *)
(* int(sha256(text).hexdigest(), 16).  Component j of an embedding (j is   *)
(* i + 1 of the code's range(128)) is the rational (hash_val % j) / j; the *)
(* model keeps its numerator.                                              *)
(***************************************************************************)
embedding_size == 128

Symbols == <<" ", ".", "?", "!", ",", "\n", "\t", ArabicQuestionMark>>

ord(c) ==
    IF \E i \in 1..26 : LowerCase[i] = c
    THEN CHOOSE i \in 1..26 : LowerCase[i] = c
    ELSE IF \E i \in 1..26 : UpperCase[i] = c
    THEN 26 + (CHOOSE i \in 1..26 : UpperCase[i] = c)
    ELSE IF \E i \in 1..Len(Symbols) : Symbols[i] = c
    THEN 52 + (CHOOSE i \in 1..Len(Symbols) : Symbols[i] = c)
    ELSE 64

RECURSIVE digest_from(_, _)
digest_from(text, h) ==
    IF text = <<>> THEN h
    ELSE digest_from(Tail(text), (h * 31 + ord(Head(text))) % HashMod)

\* int(hashlib.sha256(text.encode('utf-8')).hexdigest(), 16)
sha256_int(text) == digest_from(text, 7 % HashMod)

\* an embedding that also depends on how often the function has been called
get_mock_embedding_counting_calls(text) ==
    LET hash_val == sha256_int(text) + (IF pc = "called" THEN 0 ELSE 1)
    IN  AsTuple([j \in 1..embedding_size |-> hash_val % j])

\* get_mock_embedding, llm_utils.py:55-59
get_mock_embedding(text) ==
    LET hash_val == sha256_int(text)
    IN  AsTuple([j \in 1..embedding_size |-> hash_val % j])

(***************************************************************************)
(* faiss.IndexFlatL2: the rows added, searched exhaustively by squared L2  *)
(* distance.  Distances are kept in fixed point, DistScale units to one.   *)
(***************************************************************************)
RECURSIVE sq_l2_sum(_, _, _, _)
\* the sum over components lo..hi of (x[j] - y[j])^2, by halves
sq_l2_sum(x, y, lo, hi) ==
    IF lo > hi THEN 0
    ELSE IF lo = hi
         THEN ((x[lo] - y[lo]) * (x[lo] - y[lo]) * DistScale) \div (lo * lo)
         ELSE LET mid == (lo + hi) \div 2
              IN  sq_l2_sum(x, y, lo, mid) + sq_l2_sum(x, y, mid + 1, hi)

sq_l2(x, y) == sq_l2_sum(x, y, 1, Len(x))

\* the distance faiss reports beside a label of -1
NoDistance == -1

\* faiss.IndexFlatL2(dimension) followed by index.add(embeddings)
IndexFlatL2(dimension, rows) == [d |-> dimension, xb |-> rows]

\* index.search(x, k): the k nearest rows, nearest first, as 0-based labels with
\* their distances; rows at equal distance in label order; when the index holds
\* fewer than k rows the remaining labels are -1
index_search(idx, x, k) ==
    LET n == Len(idx.xb)
        dist == AsTuple([i \in 1..n |-> sq_l2(x, idx.xb[i])])
        before(i) == Cardinality({j \in 1..n :
                        dist[j] < dist[i] \/ (dist[j] = dist[i] /\ j < i)})
        order == AsTuple([p \in 1..n |-> CHOOSE i \in 1..n : before(i) = p - 1])
    IN  [distances |-> [p \in 1..k |-> IF p <= n THEN dist[order[p]] ELSE NoDistance],
         indices |-> [p \in 1..k |-> IF p <= n THEN order[p] - 1 ELSE -1]]

(***************************************************************************)
(* RAGCore: construction.                                                  *)
(***************************************************************************)
RECURSIVE load_from(_, _)
\* the for loop of load_documents over paths, loaded_docs being loaded
load_from(paths, loaded) ==
    IF paths = <<>> THEN loaded
    ELSE IF Loadable(Head(paths))
         THEN load_from(Tail(paths),
                        Append(loaded, [text |-> FileContent(Head(paths)),
                                        source |-> basename(Head(paths))]))
         ELSE load_from(Tail(paths), loaded)

\* load_documents giving up at the first path that fails to load
load_documents_aborting ==
    LET bad == {i \in 1..Len(document_paths) : ~Loadable(document_paths[i])}
        stop == IF bad = {} THEN Len(document_paths) + 1
                ELSE CHOOSE i \in bad : \A j \in bad : i <= j
    IN  load_from(SubSeq(document_paths, 1, stop - 1), <<>>)

\* RAGCore.load_documents
load_documents == load_from(document_paths, <<>>)

\* f"{doc['source']}_chunk_{i}"
chunk_id_of(source, i) == <<source, "_chunk_", i>>

\* the chunks of one document: the inner loop of chunk_documents
doc_chunks(doc) ==
    LET texts == split_text(doc.text, chunk_size, chunk_overlap)
    IN  [k \in 1..Len(texts) |->
            [text |-> texts[k], source |-> doc.source,
             chunk_id |-> chunk_id_of(doc.source, k - 1)]]

RECURSIVE chunk_documents(_)
\* RAGCore.chunk_documents: all_chunks
chunk_documents(docs) ==
    IF docs = <<>> THEN <<>>
    ELSE doc_chunks(Head(docs)) \o chunk_documents(Tail(docs))

\* self.source_map after chunk_documents(docs): one entry per chunk_id
source_map_after(map, docs) ==
    LET new == chunk_documents(docs)
        ids == {new[k].chunk_id : k \in 1..Len(new)}
    IN  [id \in (DOMAIN map) \cup ids |->
            IF id \in ids
            THEN (LET k == CHOOSE i \in 1..Len(new) :
                               /\ new[i].chunk_id = id
                               /\ \A j \in (i + 1)..Len(new) : new[j].chunk_id # id
                  IN  new[k].source)
            ELSE map[id]]

\* get_embeddings embedding each distinct chunk text once
get_embeddings_of_distinct_texts(cks) ==
    LET firsts == SelectSeq([k \in 1..Len(cks) |-> k],
                            LAMBDA k : \A j \in 1..(k - 1) : cks[j].text # cks[k].text)
    IN  [p \in 1..Len(firsts) |-> get_mock_embedding(cks[firsts[p]].text)]

\* RAGCore.get_embeddings
get_embeddings(cks) == [k \in 1..Len(cks) |-> get_mock_embedding(cks[k].text)]

\* RAGCore.build_faiss_index
build_faiss_index(embs) ==
    IF ~FAISS_AVAILABLE THEN None
    ELSE IF Len(embs) = 0 THEN None
    ELSE IndexFlatL2(Len(embs[1]), embs)

(***************************************************************************)
(* The answer composer, llm_utils.get_llm_response_rag.                    *)
(*                                                                         *)
(* The literals of the source are pieces.  The Arabic literals are written *)
(* in Latin letters behind the tag [ar].                                   *)
(***************************************************************************)
STOP_WORDS == {
    <<"a">>, <<"a","n">>, <<"t","h","e">>, <<"i","s">>, <<"a","r","e">>,
    <<"w","a","s">>, <<"w","e","r","e">>, <<"w","h","a","t">>, <<"w","h","e","r","e">>,
    <<"w","h","e","n">>, <<"w","h","y">>, <<"h","o","w">>, <<"o","f">>, <<"i","n">>,
    <<"o","n">>, <<"f","o","r">>, <<"w","i","t","h">>, <<"a","n","d">>, <<"o","r">>,
    <<"b","u","t">>, <<"i">>, <<"y","o","u">>, <<"h","e">>, <<"s","h","e">>,
    <<"i","t">>, <<"w","e">>, <<"t","h","e","y">>, <<"m","e">>, <<"h","i","m">>,
    <<"h","e","r">>, <<"u","s">>, <<"t","h","e","m">>, <<"m","y">>,
    <<"y","o","u","r">>, <<"h","i","s">>, <<"o","u","r">>, <<"t","h","e","i","r">>,
    <<"f","r","a","n","c","e">>, <<"c","a","p","i","t","a","l">> }

StripChars == {"?", "!", ".", ","}

RefusalEn ==
    "I cannot answer this question based on the provided documents. Please try another query."

RefusalAr ==
    "[ar] I cannot answer this question based on the provided documents. Please try another query."

EnglishMarker == "English Answer: "

ArabicMarker == "[ar] Arabic Answer: "

NotDirectlyEn == "I found some context, but it's not directly answering the query."

NotDirectlyAr == "[ar] I found some context, but it's not directly answering the query."

BasedOnEn == "Based on the documents, regarding '"

BasedOnAr == "[ar] Based on the documents, regarding '"

RelatedEn == "', some related information is: '"

RelatedAr == "[ar] ', some related information is: '"

Ellipsis == "...'"

\* prompt_template_en, llm_utils.py:87-97
prompt_template_en(context_str, query) ==
    <<"You are a helpful AI assistant. [...] Ensure the answer is in English. Context: ">>
    \o context_str \o <<" Question: ">> \o query \o <<" Answer: ">>

\* prompt_template_ar, llm_utils.py:99-109
prompt_template_ar(context_str, query) ==
    <<"[ar] You are a helpful AI assistant. [...] Ensure the answer is in Arabic. Context: ">>
    \o context_str \o <<"[ar] Question: ">> \o query \o <<"[ar] Answer: ">>

\* a query word lower-cased, its punctuation kept
normalized_keeping_marks(q_word) == lower(q_word)

\* the word a query word is compared by: q_word.lower().strip("?!.,")
normalized(q_word) == strip(lower(q_word), StripChars)

\* query_words_filtered, llm_utils.py:117-121
query_words_filtered(query) ==
    LET words == split(query)
        kept == SelectSeq(words, LAMBDA w : normalized(w) \notin STOP_WORDS)
    IN  AsTuple([k \in 1..Len(kept) |-> normalized(kept[k])])

\* is_relevant_context, llm_utils.py:124
is_relevant_context(query, context_str) ==
    LET words == query_words_filtered(query)
        lowered == lower(context_str)
    IN  \E k \in 1..Len(words) : contains(lowered, words[k])

\* the branch taken when context is empty, llm_utils.py:78-83
refusal(language) ==
    IF language = "en" THEN <<RefusalEn>> ELSE <<RefusalAr>>

\* mock_answer_prefix, llm_utils.py:126
mock_answer_prefix(language) ==
    IF language = "en" THEN <<EnglishMarker>> ELSE <<ArabicMarker>>

\* response_content, llm_utils.py:128-137
response_content(query, context_str, language) ==
    IF is_relevant_context(query, context_str)
    THEN IF language = "ar"
         THEN <<BasedOnAr>> \o query \o <<RelatedAr>>
              \o prefix_slice(context_str, 150) \o <<Ellipsis>>
         ELSE <<BasedOnEn>> \o query \o <<RelatedEn>>
              \o prefix_slice(context_str, 150) \o <<Ellipsis>>
    ELSE IF language = "en" THEN <<NotDirectlyEn>> ELSE <<NotDirectlyAr>>

\* a composer that builds its prompt before it looks at the context
llm_response_rag_run_prompt_first(query, context, language) ==
    LET context_str == join(context, <<"\n">>)
        prompt == IF language = "ar"
                  THEN prompt_template_ar(context_str, query)
                  ELSE prompt_template_en(context_str, query)
    IN  [answer |-> IF context = <<>> THEN refusal(language)
                    ELSE mock_answer_prefix(language)
                         \o response_content(query, context_str, language),
         prompt_built |-> TRUE,
         prompt |-> prompt]

\* get_llm_response_rag with the locals it leaves behind: the answer it returns,
\* whether the prompt was built, and the prompt
llm_response_rag_run(query, context, language) ==
    IF context = <<>>
    THEN [answer |-> refusal(language), prompt_built |-> FALSE, prompt |-> <<>>]
    ELSE LET context_str == join(context, <<"\n">>)
         IN  [answer |-> mock_answer_prefix(language)
                         \o response_content(query, context_str, language),
              prompt_built |-> TRUE,
              prompt |-> IF language = "ar"
                         THEN prompt_template_ar(context_str, query)
                         ELSE prompt_template_en(context_str, query)]

get_llm_response_rag(query, context, language) ==
    llm_response_rag_run(query, context, language).answer

(***************************************************************************)
(* RAGCore.query.                                                          *)
(***************************************************************************)
SourceNames ==
    <<"document1_en.txt", "document2_ar.txt", "empty.txt", "missing.txt">>

source_rank(name) == CHOOSE i \in 1..Len(SourceNames) : SourceNames[i] = name

\* list(items): the duplicates kept
list_keeping_duplicates(items) == items

\* list(set(items)): each distinct item once, in the order the process's string
\* hashing gives the set (one order per PYTHONHASHSEED)
list_of_set(items) ==
    LET S == Range(items)
        before(x) == Cardinality({y \in S :
                        IF PYTHONHASHSEED = 0
                        THEN source_rank(y) < source_rank(x)
                        ELSE source_rank(y) > source_rank(x)})
    IN  [p \in 1..Cardinality(S) |-> CHOOSE x \in S : before(x) = p - 1]

\* rag_core.py:184, the test that sends a query to the mock search
mock_search == index = None \/ ~FAISS_AVAILABLE

\* a mock search that gives every chunk
mock_retrieved_all(rnd) == chunks

\* rag_core.py:188-191: the mock search, one chunk drawn at random or none
mock_retrieved(rnd) == IF chunks # <<>> THEN <<py_index(chunks, rnd)>> ELSE <<>>

\* rag_core.py:182-197: retrieved_chunks_info and distances, with the labels the
\* index returned; rnd is the value np.random.randint(0, len(self.chunks)) draws
retrieve(query_text, top_k, rnd) ==
    LET query_embedding == get_mock_embedding(query_text)
    IN  IF mock_search
        THEN LET info == mock_retrieved(rnd)
             IN  [retrieved_chunks_info |-> info,
                  distances |-> [p \in 1..Len(info) |-> 0],
                  indices |-> <<>>]
        ELSE LET found == index_search(index, query_embedding, top_k)
                 kept == SelectSeq(found.indices, LAMBDA i : i < Len(chunks))
             IN  [retrieved_chunks_info |->
                      AsTuple([p \in 1..Len(kept) |-> py_index(chunks, kept[p])]),
                  distances |-> found.distances,
                  indices |-> found.indices]

\* query dividing by the number of retrieved chunks: it raises when there is none
query_outcome_needs_chunks(query_text, language, info, raised) ==
    IF raised \/ info = <<>>
    THEN [kind |-> "raise"]
    ELSE [kind |-> "return",
          answer |-> get_llm_response_rag(query_text,
                        AsTuple([p \in 1..Len(info) |-> info[p].text]), language),
          citations |-> list_of_set([p \in 1..Len(info) |-> info[p].source]),
          cost_usd |-> Len(query_text),
          retrieved_chunks |-> [p \in 1..Len(info) |-> info[p].text]]

\* query catching a failure of the generation step and answering with the refusal
query_outcome_swallowing(query_text, language, info, raised) ==
    [kind |-> "return",
     answer |-> IF raised THEN refusal(language)
                ELSE get_llm_response_rag(query_text,
                        AsTuple([p \in 1..Len(info) |-> info[p].text]), language),
     citations |-> list_of_set([p \in 1..Len(info) |-> info[p].source]),
     cost_usd |-> Len(query_text),
     retrieved_chunks |-> [p \in 1..Len(info) |-> info[p].text]]

\* rag_core.py:199-216: what query gives its caller once the chunks are retrieved;
\* raised says that the call of get_llm_response_rag at line 203 raised.
\* cost_usd is kept in millionths of a dollar per thousand characters;
\* latency_ms is wall-clock time and is left out.
query_outcome(query_text, language, info, raised) ==
    LET context_texts == AsTuple([p \in 1..Len(info) |-> info[p].text])
        citations == list_of_set([p \in 1..Len(info) |-> info[p].source])
    IN  IF raised
        THEN [kind |-> "raise"]
        ELSE [kind |-> "return",
              answer |-> get_llm_response_rag(query_text, context_texts, language),
              citations |-> citations,
              cost_usd |-> Len(query_text),
              retrieved_chunks |-> [p \in 1..Len(info) |-> info[p].text]]

(***************************************************************************)
(* The inputs the model draws.                                             *)
(***************************************************************************)
HashSeeds == {0, 1}

\* (chunk_size, chunk_overlap): the defaults of __init__ and a small pair
SplitterArgs == {<<500, 50>>, <<8, 2>>}

PathLists == UNION {[1..n -> Paths] : n \in 0..MaxPaths}

Languages == {"en", "ar", "fr"}

QFox == <<"W","h","a","t"," ","i","s"," ","a"," ","f","o","x","?">>

QStopWordsOnly == <<"t","h","e"," ","c","a","p","i","t","a","l"," ","o","f"," ","F","r","a","n","c","e","?">>

QLoneMark == <<"I","s"," ","i","t"," ","?">>

QArabic == <<"k","a","l","b",ArabicQuestionMark>>

QCat == <<"C","A","T","!">>

QEmpty == <<>>

\* the queries made on the pipeline
Queries == {QFox, QStopWordsOnly, QArabic}

\* the queries and contexts the composer is called with directly
ComposerQueries == Queries \cup {QLoneMark, QCat, QEmpty}

ComposerContexts == {
    <<>>,
    << <<"a"," ","f","o","x",".">> >>,
    << <<"a"," ","f","o","x",".">>, <<"F","o","x">> >>,
    << <<"T","h","e"," ","C","a","t","s">> >>,
    << <<"k","a","l","b">>, <<"h","a","y","a","w","a","n">> >>,
    << <<"r","u","n","s">>, <<"t","h","e"," ","c","a","t">> >> }

(***************************************************************************)
(* The pipeline as a state machine: __init__, then any number of queries.  *)
(***************************************************************************)
Init ==
    /\ FAISS_AVAILABLE \in BOOLEAN
    /\ PYTHONHASHSEED \in HashSeeds
    /\ document_paths \in PathLists
    /\ \E a \in SplitterArgs : chunk_size = a[1] /\ chunk_overlap = a[2]
    /\ documents = <<>>
    /\ chunks = <<>>
    /\ embeddings = <<>>
    /\ index = None
    /\ source_map = <<>>
    /\ pc = "new"
    /\ call = None
    /\ outcome = None
    /\ services = None
    /\ files = None

\* RAGCore.__init__, with _initialize_pipeline: ingest, chunk, embed, index
RAGCore_init ==
    /\ pc = "new"
    /\ LET docs == load_documents
           cks == chunk_documents(docs)
           embs == get_embeddings(cks)
       IN  /\ documents' = docs
           /\ chunks' = cks
           /\ source_map' = source_map_after(source_map, docs)
           /\ embeddings' = embs
           /\ index' = build_faiss_index(embs)
    /\ pc' = "returned"
    /\ call' = [op |-> "__init__"]
    /\ outcome' = [kind |-> "return"]
    /\ UNCHANGED <<services, files, FAISS_AVAILABLE, PYTHONHASHSEED, document_paths,
                   chunk_size, chunk_overlap>>

\* query keeping the text it was asked as one more chunk of the pipeline
query_with_remembering(query_text, language, top_k, r, raised) ==
    /\ pc = "ready"
    /\ raised => r.retrieved_chunks_info # <<>>
    /\ call' = [op |-> "query", query_text |-> query_text,
                language |-> language, top_k |-> top_k,
                mode |-> IF mock_search THEN "Degraded" ELSE "Indexed",
                indices |-> r.indices,
                retrieved_chunks_info |-> r.retrieved_chunks_info,
                generation_failed |-> raised]
    /\ outcome' = query_outcome(query_text, language, r.retrieved_chunks_info, raised)
    /\ pc' = "returned"
    /\ chunks' = Append(chunks, [text |-> query_text, source |-> "query",
                                 chunk_id |-> chunk_id_of("query", Len(chunks))])
    /\ UNCHANGED <<services, files, FAISS_AVAILABLE, PYTHONHASHSEED, document_paths,
                   chunk_size, chunk_overlap, documents, embeddings, index, source_map>>

\* RAGCore.query(query_text, language, top_k) from its call to its return or raise;
\* r is what lines 182-197 retrieve for query_text and top_k
query_with(query_text, language, top_k, r, raised) ==
    /\ pc = "ready"
    /\ raised => r.retrieved_chunks_info # <<>>
    /\ call' = [op |-> "query", query_text |-> query_text,
                language |-> language, top_k |-> top_k,
                mode |-> IF mock_search THEN "Degraded" ELSE "Indexed",
                indices |-> r.indices,
                retrieved_chunks_info |-> r.retrieved_chunks_info,
                generation_failed |-> raised]
    /\ outcome' = query_outcome(query_text, language, r.retrieved_chunks_info, raised)
    /\ pc' = "returned"
    /\ UNCHANGED <<services, files, FAISS_AVAILABLE, PYTHONHASHSEED, document_paths,
                   chunk_size, chunk_overlap, pipeline>>

\* the values np.random.randint(0, len(self.chunks)) can draw at line 189
random_draws == 0..(IF mock_search /\ chunks # <<>> THEN Len(chunks) - 1 ELSE 0)

\* the caller takes what query gave it and is free to call again
caller_resumes ==
    /\ pc = "returned"
    /\ pc' = "ready"
    /\ call' = None
    /\ outcome' = None
    /\ UNCHANGED <<services, files, FAISS_AVAILABLE, PYTHONHASHSEED, document_paths,
                   chunk_size, chunk_overlap, pipeline>>

\* RAGCore.query called on the built pipeline, with any arguments
query ==
    /\ pc = "ready"
    /\ \E q \in Queries, k \in 1..MaxTopK, rnd \in random_draws :
            LET r == retrieve(q, k, rnd)
            IN  \E l \in Languages, raised \in BOOLEAN :
                    query_with(q, l, k, r, raised)

Next ==
    \/ RAGCore_init
    \/ query
    \/ caller_resumes

Spec == Init /\ [][Next]_vars

(***************************************************************************)
(* The composer called on its own: any query, context and language.        *)
(***************************************************************************)
InitComposer ==
    /\ FAISS_AVAILABLE = TRUE
    /\ PYTHONHASHSEED = 0
    /\ document_paths = <<>>
    /\ chunk_size = 500
    /\ chunk_overlap = 50
    /\ documents = <<>>
    /\ chunks = <<>>
    /\ embeddings = <<>>
    /\ index = None
    /\ source_map = <<>>
    /\ pc = "called"
    /\ \E q \in ComposerQueries, c \in ComposerContexts, l \in Languages :
            call = [op |-> "get_llm_response_rag", query |-> q, context |-> c,
                    language |-> l]
    /\ outcome = None
    /\ services = None
    /\ files = None

\* get_llm_response_rag(query, context, language) runs and returns
llm_response_rag_returns ==
    /\ pc = "called"
    /\ call.op = "get_llm_response_rag"
    /\ LET run == llm_response_rag_run(call.query, call.context, call.language)
       IN  outcome' = [kind |-> "return", answer |-> run.answer,
                       prompt_built |-> run.prompt_built, prompt |-> run.prompt]
    /\ pc' = "returned"
    /\ UNCHANGED <<services, files, FAISS_AVAILABLE, PYTHONHASHSEED, document_paths,
                   chunk_size, chunk_overlap, pipeline, call>>

NextComposer == llm_response_rag_returns

SpecComposer == InitComposer /\ [][NextComposer]_vars

(***************************************************************************)
(* The embedding function called on its own, twice with the same text.     *)
(***************************************************************************)
\* every text of at most MaxTextLen characters over a small alphabet, the queries
\* and the texts of the documents
EmbeddingTexts ==
    UNION {[1..n -> {"a", "B", " "}] : n \in 0..MaxTextLen}
    \cup ComposerQueries
    \cup {FileContent(path) : path \in {Doc1En, Doc1EnArchived, Doc2Ar}}

InitEmbedding ==
    /\ FAISS_AVAILABLE = TRUE
    /\ PYTHONHASHSEED \in HashSeeds
    /\ document_paths = <<>>
    /\ chunk_size = 500
    /\ chunk_overlap = 50
    /\ documents = <<>>
    /\ chunks = <<>>
    /\ embeddings = <<>>
    /\ index = None
    /\ source_map = <<>>
    /\ pc = "called"
    /\ \E text \in EmbeddingTexts : call = [op |-> "get_mock_embedding", text |-> text]
    /\ outcome = None
    /\ services = None
    /\ files = None

\* get_mock_embedding(text) returns for the first time
mock_embedding_returns ==
    /\ pc = "called"
    /\ call.op = "get_mock_embedding"
    /\ outcome' = [first |-> get_mock_embedding(call.text)]
    /\ pc' = "called_again"
    /\ UNCHANGED <<services, files, FAISS_AVAILABLE, PYTHONHASHSEED, document_paths,
                   chunk_size, chunk_overlap, pipeline, call>>

\* the same call made again returns
mock_embedding_returns_again ==
    /\ pc = "called_again"
    /\ call.op = "get_mock_embedding"
    /\ outcome' = [first |-> outcome.first, second |-> get_mock_embedding(call.text)]
    /\ pc' = "returned"
    /\ UNCHANGED <<services, files, FAISS_AVAILABLE, PYTHONHASHSEED, document_paths,
                   chunk_size, chunk_overlap, pipeline, call>>

NextEmbedding ==
    \/ mock_embedding_returns
    \/ mock_embedding_returns_again

SpecEmbedding == InitEmbedding /\ [][NextEmbedding]_vars

(***************************************************************************)
(* The text splitter called on its own, as chunk_documents calls it for    *)
(* one document.                                                           *)
(***************************************************************************)
\* short texts over a letter, a blank and a newline, the texts of the documents,
\* and texts with a long word, blank ends and paragraphs
SplitterTexts ==
    UNION {[1..n -> {"a", " ", "\n"}] : n \in 0..MaxTextLen}
    \cup {FileContent(path) : path \in {Doc1En, Doc1EnArchived, Doc2Ar, EmptyDoc}}
    \cup { <<"a","b","c","d","e","f","g","h","i","j","k","l">>,
           <<" ","a","b"," ","c","d"," ","e"," ","f","g","h"," ">>,
           <<"a","b","\n","\n","c"," ","d","e","f","\n","g","h","i","j">> }

\* (chunk_size, chunk_overlap) of the splitter
SplitterCallArgs == SplitterArgs \cup {<<4, 1>>, <<3, 0>>}

InitSplitter ==
    /\ FAISS_AVAILABLE = TRUE
    /\ PYTHONHASHSEED = 0
    /\ document_paths = <<>>
    /\ \E a \in SplitterCallArgs : chunk_size = a[1] /\ chunk_overlap = a[2]
    /\ documents = <<>>
    /\ chunks = <<>>
    /\ embeddings = <<>>
    /\ index = None
    /\ source_map = <<>>
    /\ pc = "called"
    /\ \E text \in SplitterTexts : call = [op |-> "split_text", text |-> text]
    /\ outcome = None
    /\ services = None
    /\ files = None

\* self.text_splitter.split_text(doc['text']) returns
split_text_returns ==
    /\ pc = "called"
    /\ call.op = "split_text"
    /\ outcome' = [kind |-> "return",
                   texts |-> split_text(call.text, chunk_size, chunk_overlap)]
    /\ pc' = "returned"
    /\ UNCHANGED <<services, files, FAISS_AVAILABLE, PYTHONHASHSEED, document_paths,
                   chunk_size, chunk_overlap, pipeline, call>>

NextSplitter == split_text_returns

SpecSplitter == InitSplitter /\ [][NextSplitter]_vars

(***************************************************************************)
(* Threads on one built RAGCore.  Here pc, call and outcome are functions: *)
(* pc gives each thread the line it is at, call[t] the locals of the query *)
(* thread t runs and outcome[t] what that query gave.  A query is a        *)
(* sequence of reads of self.index and self.chunks, each one step.         *)
(***************************************************************************)
\* the path lists the threaded pipelines are built from
ThreadPathLists == {<<>>, <<Doc1En>>, <<Doc2Ar, Doc1En>>}

\* the queries the threads make
ThreadQueries == {QFox, QArabic}

\* the languages the threads ask for
ThreadLanguages == {"en", "ar"}

\* the locals of a query that has not started
NoLocals ==
    [query_text |-> <<>>, language |-> "en", top_k |-> 1,
     chunks_loaded |-> <<>>, index_seen |-> None, chunks_seen |-> None,
     indices |-> <<>>]

\* the state after RAGCore(document_paths) has returned, threads being the
\* threads that may call query
InitBuilt(threads) ==
    /\ FAISS_AVAILABLE \in BOOLEAN
    /\ PYTHONHASHSEED = 0
    /\ document_paths \in ThreadPathLists
    /\ chunk_size = 8
    /\ chunk_overlap = 2
    /\ documents = load_documents
    /\ chunks = chunk_documents(documents)
    /\ source_map = source_map_after(<<>>, documents)
    /\ embeddings = get_embeddings(chunks)
    /\ index = build_faiss_index(embeddings)
    /\ pc = [t \in threads \cup {"builder"} |-> "idle"]
    /\ call = [t \in threads |-> NoLocals]
    /\ outcome = [t \in threads |-> None]
    /\ services = None
    /\ files = None

\* the rest of query from line 199 on, all on locals: thread t is given its result
query_finishes(t, info) ==
    /\ outcome' = [outcome EXCEPT ![t] =
                      query_outcome(call[t].query_text, call[t].language, info, FALSE)]
    /\ pc' = [pc EXCEPT ![t] = "returned"]

\* an exception leaves query in thread t
query_raises(t) ==
    /\ outcome' = [outcome EXCEPT ![t] = [kind |-> "raise"]]
    /\ pc' = [pc EXCEPT ![t] = "returned"]

\* thread t calls query(query_text, language, top_k); line 182
query_called(t) ==
    /\ t \in DOMAIN call
    /\ pc[t] = "idle"
    /\ \E q \in ThreadQueries, l \in ThreadLanguages, k \in 1..MaxTopK :
            call' = [call EXCEPT ![t] = [NoLocals EXCEPT !.query_text = q,
                                            !.language = l, !.top_k = k]]
    /\ pc' = [pc EXCEPT ![t] = "line184"]
    /\ UNCHANGED <<services, files, FAISS_AVAILABLE, PYTHONHASHSEED, document_paths,
                   chunk_size, chunk_overlap, pipeline, outcome>>

\* line 184: if self.index is None or not FAISS_AVAILABLE
query_tests_index(t) ==
    /\ t \in DOMAIN call
    /\ pc[t] = "line184"
    /\ pc' = [pc EXCEPT ![t] = IF mock_search THEN "line188" ELSE "line195"]
    /\ UNCHANGED <<services, files, FAISS_AVAILABLE, PYTHONHASHSEED, document_paths,
                   chunk_size, chunk_overlap, pipeline, call, outcome>>

\* line 188: if self.chunks; an empty list goes to line 191 and on to the return
query_tests_chunks(t) ==
    /\ t \in DOMAIN call
    /\ pc[t] = "line188"
    /\ IF chunks # <<>>
       THEN pc' = [pc EXCEPT ![t] = "line189"] /\ UNCHANGED outcome
       ELSE query_finishes(t, <<>>)
    /\ UNCHANGED <<services, files, FAISS_AVAILABLE, PYTHONHASHSEED, document_paths,
                   chunk_size, chunk_overlap, pipeline, call>>

\* line 189: self.chunks is loaded as the list to subscript
query_loads_chunks(t) ==
    /\ t \in DOMAIN call
    /\ pc[t] = "line189"
    /\ call' = [call EXCEPT ![t].chunks_loaded = chunks]
    /\ pc' = [pc EXCEPT ![t] = "line189_randint"]
    /\ UNCHANGED <<services, files, FAISS_AVAILABLE, PYTHONHASHSEED, document_paths,
                   chunk_size, chunk_overlap, pipeline, outcome>>

\* line 189: np.random.randint(0, len(self.chunks)) and the subscript; randint
\* raises ValueError on an empty range, the subscript IndexError past the end
query_draws(t) ==
    /\ t \in DOMAIN call
    /\ pc[t] = "line189_randint"
    /\ IF chunks = <<>>
       THEN query_raises(t)
       ELSE \E rnd \in 0..(Len(chunks) - 1) :
                IF rnd < Len(call[t].chunks_loaded)
                THEN query_finishes(t, <<py_index(call[t].chunks_loaded, rnd)>>)
                ELSE query_raises(t)
    /\ UNCHANGED <<services, files, FAISS_AVAILABLE, PYTHONHASHSEED, document_paths,
                   chunk_size, chunk_overlap, pipeline, call>>

\* line 195: self.index.search(query_embedding, top_k); AttributeError when
\* self.index is None by now
query_searches(t) ==
    /\ t \in DOMAIN call
    /\ pc[t] = "line195"
    /\ IF index = None
       THEN query_raises(t) /\ UNCHANGED call
       ELSE /\ call' = [call EXCEPT
                          ![t].index_seen = index,
                          ![t].indices = index_search(index,
                                            get_mock_embedding(call[t].query_text),
                                            call[t].top_k).indices]
            /\ pc' = [pc EXCEPT ![t] = "line196"]
            /\ UNCHANGED outcome
    /\ UNCHANGED <<services, files, FAISS_AVAILABLE, PYTHONHASHSEED, document_paths,
                   chunk_size, chunk_overlap, pipeline>>

\* line 196 sorting self.chunks in place by distance to the query before it
\* collects the chunks
query_collects_sorting_in_place(t) ==
    /\ t \in DOMAIN call
    /\ pc[t] = "line196"
    /\ LET kept == SelectSeq(call[t].indices, LAMBDA i : i < Len(chunks))
           nearest == index_search(index, get_mock_embedding(call[t].query_text),
                                   Len(chunks)).indices
       IN  /\ query_finishes(t, AsTuple([p \in 1..Len(kept) |-> py_index(chunks, kept[p])]))
           /\ chunks' = [p \in 1..Len(chunks) |-> chunks[nearest[p] + 1]]
    /\ call' = [call EXCEPT ![t].chunks_seen = chunks]
    /\ UNCHANGED <<services, files, FAISS_AVAILABLE, PYTHONHASHSEED, document_paths,
                   chunk_size, chunk_overlap, documents, embeddings, index, source_map>>

\* line 196: [self.chunks[i] for i in indices[0] if i < len(self.chunks)], then
\* the rest of query
query_collects(t) ==
    /\ t \in DOMAIN call
    /\ pc[t] = "line196"
    /\ LET kept == SelectSeq(call[t].indices, LAMBDA i : i < Len(chunks))
       IN  query_finishes(t, AsTuple([p \in 1..Len(kept) |-> py_index(chunks, kept[p])]))
    /\ call' = [call EXCEPT ![t].chunks_seen = chunks]
    /\ UNCHANGED <<services, files, FAISS_AVAILABLE, PYTHONHASHSEED, document_paths,
                   chunk_size, chunk_overlap, pipeline>>

\* the threads that may run queries
QueryThreads == {"q1", "q2"}

\* one step of the query some thread runs
query_step ==
    \E t \in QueryThreads :
        \/ query_called(t)
        \/ query_tests_index(t)
        \/ query_tests_chunks(t)
        \/ query_loads_chunks(t)
        \/ query_draws(t)
        \/ query_searches(t)
        \/ query_collects(t)

\* queries run by two threads at once on a built pipeline
InitConcurrentQueries == InitBuilt(QueryThreads)

NextConcurrentQueries == query_step

SpecConcurrentQueries == InitConcurrentQueries /\ [][NextConcurrentQueries]_vars

(***************************************************************************)
(* _initialize_pipeline run again on the built instance, by the thread     *)
(* "builder", while another thread runs a query.  The caller has given the *)
(* instance other document paths; each assignment to a field is one step.  *)
(***************************************************************************)
\* the builder sets self.document_paths and calls _initialize_pipeline
rebuild_called ==
    /\ pc["builder"] = "idle"
    /\ document_paths' \in ThreadPathLists
    /\ pc' = [pc EXCEPT !["builder"] = "line62"]
    /\ UNCHANGED <<services, files, FAISS_AVAILABLE, PYTHONHASHSEED, chunk_size, chunk_overlap,
                   pipeline, call, outcome>>

\* line 62: self.documents = self.load_documents()
rebuild_loads ==
    /\ pc["builder"] = "line62"
    /\ documents' = load_documents
    /\ pc' = [pc EXCEPT !["builder"] = "line67"]
    /\ UNCHANGED <<services, files, FAISS_AVAILABLE, PYTHONHASHSEED, document_paths, chunk_size,
                   chunk_overlap, chunks, embeddings, index, source_map, call, outcome>>

\* line 67: self.chunks = self.chunk_documents(self.documents)
rebuild_chunks ==
    /\ pc["builder"] = "line67"
    /\ chunks' = chunk_documents(documents)
    /\ source_map' = source_map_after(source_map, documents)
    /\ pc' = [pc EXCEPT !["builder"] = "line72"]
    /\ UNCHANGED <<services, files, FAISS_AVAILABLE, PYTHONHASHSEED, document_paths, chunk_size,
                   chunk_overlap, documents, embeddings, index, call, outcome>>

\* line 72: self.embeddings = self.get_embeddings(self.chunks)
rebuild_embeds ==
    /\ pc["builder"] = "line72"
    /\ embeddings' = get_embeddings(chunks)
    /\ pc' = [pc EXCEPT !["builder"] = "line77"]
    /\ UNCHANGED <<services, files, FAISS_AVAILABLE, PYTHONHASHSEED, document_paths, chunk_size,
                   chunk_overlap, documents, chunks, index, source_map, call, outcome>>

\* line 77: self.index = self.build_faiss_index(self.embeddings)
rebuild_indexes ==
    /\ pc["builder"] = "line77"
    /\ index' = build_faiss_index(embeddings)
    /\ pc' = [pc EXCEPT !["builder"] = "done"]
    /\ UNCHANGED <<services, files, FAISS_AVAILABLE, PYTHONHASHSEED, document_paths, chunk_size,
                   chunk_overlap, documents, chunks, embeddings, source_map,
                   call, outcome>>

\* one query thread and the builder
InitRebuild == InitBuilt({"q1"})

NextRebuild ==
    \/ query_step
    \/ rebuild_called
    \/ rebuild_loads
    \/ rebuild_chunks
    \/ rebuild_embeds
    \/ rebuild_indexes

SpecRebuild == InitRebuild /\ [][NextRebuild]_vars

(***************************************************************************)
(* The claims.                                                             *)
(***************************************************************************)
\* a query has returned a result to its caller
QueryReturned == pc = "returned" /\ call.op = "query" /\ outcome.kind = "return"

\* a query has returned or raised
QueryEnded == pc = "returned" /\ call.op = "query"

\* C1: for every built pipeline and every query with top_k >= 1, the number of
\* retrieved chunks a query returns is at most min(top_k, number of indexed chunks).
C1_ResultCap ==
    QueryReturned =>
        Len(outcome.retrieved_chunks) <= Min(call.top_k, Len(chunks))

\* C2: the citations of a query result are exactly the sources of the retrieved
\* chunks, each source once.
C2_CitationsAreSources ==
    QueryReturned =>
        LET info == call.retrieved_chunks_info
            cited == outcome.citations
        IN  /\ \A p \in 1..Len(info) : \E c \in 1..Len(cited) : cited[c] = info[p].source
            /\ \A c \in 1..Len(cited) : \E p \in 1..Len(info) : info[p].source = cited[c]
            /\ \A c, d \in 1..Len(cited) : cited[c] = cited[d] => c = d

\* C2 witness: a result whose retrieved chunks come from two sources, two of the
\* chunks from the same source.
C2_Witness ==
    /\ QueryReturned
    /\ LET info == call.retrieved_chunks_info
       IN  /\ \E p, r \in 1..Len(info) : p # r /\ info[p].source = info[r].source
           /\ \E p, r \in 1..Len(info) : info[p].source # info[r].source
    /\ Len(outcome.citations) = 2

\* every path given to __init__ fails to load (or none is given)
NoLoadableDocument ==
    \A i \in 1..Len(document_paths) : ~Loadable(document_paths[i])

RefusalAnswers == {<<RefusalEn>>, <<RefusalAr>>}

\* C3: a pipeline constructed from zero loadable documents still initializes, and
\* every query on it, for any text and language, returns without raising, with
\* empty citations, empty retrieved_chunks and the refusal answer.
C3_EmptyCorpusRefuses ==
    NoLoadableDocument =>
        /\ (pc = "returned" /\ call.op = "__init__") =>
                /\ outcome.kind = "return"
                /\ documents = <<>> /\ chunks = <<>> /\ index = None
        /\ QueryEnded =>
                /\ outcome.kind = "return"
                /\ outcome.citations = <<>>
                /\ outcome.retrieved_chunks = <<>>
                /\ outcome.answer \in RefusalAnswers
                /\ call.language = "en" => outcome.answer = <<RefusalEn>>
                /\ call.language = "ar" => outcome.answer = <<RefusalAr>>

\* C3 witness: a query has ended on a pipeline all of whose paths failed to load,
\* with the vector-search backend present.
C3_Witness ==
    /\ QueryEnded
    /\ document_paths # <<>>
    /\ NoLoadableDocument
    /\ FAISS_AVAILABLE
    /\ call.language = "fr"

\* C4: with the vector-search backend unavailable construction does not fail, and
\* every query retrieves exactly one chunk, one of the ingested chunks, whatever
\* top_k is, when there are chunks (so the citations come from the corpus and the
\* answer is non-empty), and none when there are no chunks.
C4_DegradedRetrievesOne ==
    ~FAISS_AVAILABLE =>
        /\ (pc = "returned" /\ call.op = "__init__") =>
                outcome.kind = "return" /\ index = None
        /\ QueryEnded =>
                LET info == call.retrieved_chunks_info
                IN  /\ chunks # <<>> =>
                            /\ Len(info) = 1
                            /\ \E i \in 1..Len(chunks) : chunks[i] = info[1]
                    /\ chunks = <<>> => info = <<>>
        /\ (QueryReturned /\ chunks # <<>>) =>
                /\ Len(outcome.retrieved_chunks) = 1
                /\ \E i \in 1..Len(chunks) :
                        chunks[i].text = outcome.retrieved_chunks[1]
                /\ Len(outcome.citations) = 1
                /\ \E i \in 1..Len(chunks) : chunks[i].source = outcome.citations[1]
                /\ outcome.answer # <<>>
        /\ (QueryReturned /\ chunks = <<>>) => outcome.retrieved_chunks = <<>>

\* C4 witness: without the backend, a query with top_k of 2 or more on a corpus of
\* several chunks has returned one chunk, and not the first one.
C4_Witness ==
    /\ ~FAISS_AVAILABLE
    /\ QueryReturned
    /\ Len(chunks) >= 3
    /\ call.top_k >= 2
    /\ Len(outcome.retrieved_chunks) = 1
    /\ call.retrieved_chunks_info[1] = chunks[2]

\* C5: the retrieval mode is observable: a result of real nearest-neighbour search
\* is never equal to a result the degraded fallback gives for the same chunks,
\* query and language, so a caller can tell the two modes apart.
C5_ModeDistinguishable ==
    (QueryReturned /\ call.mode = "Indexed") =>
        \A rnd \in 0..(Len(chunks) - 1) :
            outcome # query_outcome(call.query_text, call.language,
                                    <<py_index(chunks, rnd)>>, FALSE)

\* the positions of document_paths that load
LoadablePositions == {i \in 1..Len(document_paths) : Loadable(document_paths[i])}

\* the k-th loadable position, in the order given
NthLoadable(k) ==
    CHOOSE i \in LoadablePositions :
        Cardinality({j \in LoadablePositions : j < i}) = k - 1

\* C6: a path that fails to load is skipped and does not abort construction: the
\* loaded documents are exactly the loadable paths, in the order given, and chunks
\* are produced for every loadable document, also after a failing one.
C6_FailingPathsSkipped ==
    pc # "new" =>
        /\ Len(documents) = Cardinality(LoadablePositions)
        /\ \A k \in 1..Len(documents) :
                LET path == document_paths[NthLoadable(k)]
                IN  /\ documents[k].text = FileContent(path)
                    /\ documents[k].source = basename(path)
        /\ \A i \in LoadablePositions :
                LET path == document_paths[i]
                    texts == split_text(FileContent(path), chunk_size, chunk_overlap)
                IN  \A t \in 1..Len(texts) :
                        \E c \in 1..Len(chunks) :
                            /\ chunks[c].text = texts[t]
                            /\ chunks[c].source = basename(path)

\* C6 witness: construction has ended for a path list in which a failing path
\* comes before a loadable one, and the loadable one has chunks.
C6_Witness ==
    /\ pc # "new"
    /\ \E i, j \in 1..Len(document_paths) :
            /\ i < j
            /\ ~Loadable(document_paths[i])
            /\ Loadable(document_paths[j])
    /\ chunks # <<>>

\* the composer has returned
ComposerReturned == pc = "returned" /\ call.op = "get_llm_response_rag"

\* C7: every answer of the composer, for every query, context (the empty one
\* included) and language in {en, ar}, starts with the marker of that language.
C7_AnswerStartsWithMarker ==
    (ComposerReturned /\ call.language \in {"en", "ar"}) =>
        outcome.answer[1] =
            (IF call.language = "en" THEN EnglishMarker ELSE ArabicMarker)

\* the maximal runs of non-whitespace characters of a text, as pairs of positions
TokenSpans(text) ==
    {span \in (1..Len(text)) \X (1..Len(text)) :
        /\ span[1] <= span[2]
        /\ \A p \in span[1]..span[2] : text[p] \notin Whitespace
        /\ (span[1] = 1 \/ text[span[1] - 1] \in Whitespace)
        /\ (span[2] = Len(text) \/ text[span[2] + 1] \in Whitespace)}

\* a word without the characters '?!.,' at its two ends
WithoutEndMarks(word) ==
    LET kept == {p \in 1..Len(word) : word[p] \notin StripChars}
    IN  IF kept = {} THEN <<>>
        ELSE SubSeq(word, CHOOSE p \in kept : \A o \in kept : p <= o,
                          CHOOSE p \in kept : \A o \in kept : o <= p)

\* the tokens of a query: lower-cased, without end marks, stop words dropped
RemainingTokens(text) ==
    {token \in {WithoutEndMarks([p \in 1..(span[2] - span[1] + 1) |->
                                    lower_char(text[span[1] + p - 1])]) :
                span \in TokenSpans(text)} :
        token \notin STOP_WORDS}

\* word occurs in text at some offset
OccursIn(word, text) ==
    \E offset \in 0..(Len(text) - Len(word)) :
        \A p \in 1..Len(word) : text[offset + p] = word[p]

\* some remaining token of the call's query occurs in its lower-cased joined context
SomeTokenInContext ==
    LET joined == join(call.context, <<"\n">>)
        lowered == [p \in 1..Len(joined) |-> lower_char(joined[p])]
    IN  \E token \in RemainingTokens(call.query) : OccursIn(token, lowered)

\* C8: with a non-empty context the composer gives the context-referencing answer
\* if and only if some query token that remains after lower-casing, stripping
\* '?!.,' and dropping the stop words is a substring of the lower-cased joined
\* context; otherwise it gives the "found some context, but it's not directly
\* answering the query" answer, as for the capital-of-France query.
C8_RelevanceByRemainingToken ==
    (ComposerReturned /\ call.context # <<>>) =>
        /\ SomeTokenInContext <=> outcome.answer[2] \in {BasedOnEn, BasedOnAr}
        /\ ~SomeTokenInContext =>
                outcome.answer \in {<<EnglishMarker, NotDirectlyEn>>,
                                    <<ArabicMarker, NotDirectlyAr>>}
        /\ call.query = QStopWordsOnly => ~SomeTokenInContext

\* C8 witness: the query 'CAT!' against the context 'The Cats' has got the
\* context-referencing answer: both sides are lower-cased and the mark is stripped.
C8_Witness ==
    /\ ComposerReturned
    /\ call.query = QCat
    /\ call.context = << <<"T","h","e"," ","C","a","t","s">> >>
    /\ outcome.answer[2] = BasedOnEn

\* C9: when the context is empty the answer is the fixed refusal message of the
\* requested language, whatever the query text is, and no prompt is built and
\* nothing is generated.
C9_EmptyContextRefusal ==
    (ComposerReturned /\ call.context = <<>>) =>
        /\ call.language = "en" => outcome.answer = <<RefusalEn>>
        /\ call.language = "ar" => outcome.answer = <<RefusalAr>>
        /\ outcome.answer \in RefusalAnswers
        /\ ~outcome.prompt_built
        /\ outcome.prompt = <<>>

\* C9 witness: the composer has returned for an empty context, a non-empty query
\* and the language ar.
C9_Witness ==
    /\ ComposerReturned
    /\ call.context = <<>>
    /\ call.query = QFox
    /\ call.language = "ar"
    /\ outcome.answer = <<RefusalAr>>

\* C10: if the generation step fails during a query, query surfaces the failure to
\* its caller: it returns no result, so neither the refusal nor a substituted answer.
C10_GenerationFailureSurfaces ==
    (QueryEnded /\ call.generation_failed) =>
        /\ outcome.kind = "raise"
        /\ outcome = [kind |-> "raise"]

\* C10 witness: a query whose retrieval found chunks has ended with the generation
\* step failed.
C10_Witness ==
    /\ QueryEnded
    /\ call.generation_failed
    /\ call.mode = "Indexed"
    /\ Len(call.retrieved_chunks_info) >= 2

\* C11: within one pipeline no two chunks share a chunk_id, for every list of
\* document paths, paths of the same file name in different directories included.
C11_ChunkIdsUnique ==
    pc # "new" =>
        \A i, j \in 1..Len(chunks) :
            chunks[i].chunk_id = chunks[j].chunk_id => i = j

\* C12: after construction there are as many embedding rows as chunks, row i is
\* the embedding of the text of chunk i, and a built index holds exactly these
\* rows, so a label that search returns for a row denotes the chunk at that position.
C12_RowsAlignedWithChunks ==
    pc # "new" =>
        /\ Len(embeddings) = Len(chunks)
        /\ \A i \in 1..Len(chunks) :
                embeddings[i] = get_mock_embedding(chunks[i].text)
        /\ index # None =>
                /\ Len(index.xb) = Len(chunks)
                /\ \A i \in 1..Len(chunks) :
                        index.xb[i] = get_mock_embedding(chunks[i].text)
        /\ (QueryEnded /\ call.mode = "Indexed") =>
                \A p \in 1..Len(call.indices) :
                    call.indices[p] >= 0 =>
                        /\ call.indices[p] < Len(chunks)
                        /\ call.retrieved_chunks_info[p] = chunks[call.indices[p] + 1]

\* C12 witness: an index was built over several chunks, two of them with the same
\* text, and a search has returned the label of a chunk that is not the first.
C12_Witness ==
    /\ QueryEnded
    /\ index # None
    /\ \E i, j \in 1..Len(chunks) : i < j /\ chunks[i].text = chunks[j].text
    /\ call.indices[1] > 0

\* C13: a query in flight while the pipeline is rebuilt never observes a partly
\* built structure: the index it searched and the chunk list it read its chunks
\* from come from one build, the index holding the embeddings of those chunks.
C13_QueryReadsOneBuild ==
    \A t \in DOMAIN call :
        (pc[t] = "returned" /\ call[t].index_seen # None) =>
            /\ Len(call[t].index_seen.xb) = Len(call[t].chunks_seen)
            /\ \A i \in 1..Len(call[t].chunks_seen) :
                    call[t].index_seen.xb[i] =
                        get_mock_embedding(call[t].chunks_seen[i].text)

\* the results query(query_text, language, top_k) can give when it runs alone on
\* the pipeline as it is
AloneOutcomes(query_text, language, top_k) ==
    {query_outcome(query_text, language,
                   retrieve(query_text, top_k, rnd).retrieved_chunks_info, FALSE) :
        rnd \in random_draws}

\* C14: concurrent queries on a built pipeline need no locking: in every
\* interleaving of concurrent query calls with no rebuild, each call returns an
\* answer, citations and retrieved_chunks it would return if run alone.
C14_ConcurrentQueriesAsAlone ==
    \A t \in DOMAIN call :
        pc[t] = "returned" =>
            outcome[t] \in AloneOutcomes(call[t].query_text, call[t].language,
                                         call[t].top_k)

\* C14 witness: a query searching the index has returned while the query of the
\* other thread, for another text, is between its search and its read of the chunks.
C14_Witness ==
    /\ pc["q1"] = "returned"
    /\ call["q1"].index_seen # None
    /\ pc["q2"] = "line196"
    /\ call["q1"].query_text # call["q2"].query_text
    /\ Len(outcome["q1"].retrieved_chunks) >= 2

\* C15: query leaves the pipeline unchanged: once construction has ended, no
\* step (so no sequence of queries) changes documents, chunks, embeddings, the
\* index or source_map.
C15_QueryLeavesPipelineUnchanged ==
    [][pc # "new" => UNCHANGED pipeline]_vars

\* C15 witness: a query that searched the index has returned several chunks.
C15_Witness ==
    /\ QueryReturned
    /\ call.mode = "Indexed"
    /\ Len(outcome.retrieved_chunks) >= 2
    /\ Cardinality(DOMAIN source_map) >= 2

\* C16: queries are stateless after the build: what query(text, language, top_k)
\* returns on a built pipeline is one result only, so a repeated identical query
\* gives an identical answer, citations and retrieved_chunks.
C16_RepeatedQuerySameResult ==
    QueryReturned =>
        \A other \in AloneOutcomes(call.query_text, call.language, call.top_k) :
            /\ other.answer = outcome.answer
            /\ other.citations = outcome.citations
            /\ other.retrieved_chunks = outcome.retrieved_chunks

\* the squared L2 distance between the embeddings of a query text and of a chunk
DistanceToQuery(query_text, chunk) ==
    sq_l2(get_mock_embedding(query_text), get_mock_embedding(chunk.text))

\* C17: when the index is searched, the retrieved chunks are listed nearest
\* first: in non-decreasing squared L2 distance to the query embedding.
C17_NearestFirst ==
    (QueryReturned /\ call.mode = "Indexed") =>
        LET info == call.retrieved_chunks_info
        IN  \A p \in 1..(Len(info) - 1) :
                DistanceToQuery(call.query_text, info[p])
                    <= DistanceToQuery(call.query_text, info[p + 1])

C19_TestCorpusCitesRelevant ==
    (QueryReturned /\ document_paths = <<Doc1En, Doc2Ar>>
                   /\ Len(chunks) <= call.top_k) =>
        /\ (call.query_text = QFox /\ call.language = "en") =>
                /\ Len(outcome.answer) >= 2
                /\ outcome.answer[1] = EnglishMarker
                /\ basename(Doc1En) \in Range(outcome.citations)
        /\ (call.query_text = QArabic /\ call.language = "ar") =>
                /\ Len(outcome.answer) >= 2
                /\ outcome.answer[1] = ArabicMarker
                /\ basename(Doc2Ar) \in Range(outcome.citations)

\* word stands in text from position pos on
StandsAt(word, text, pos) ==
    /\ pos + Len(word) - 1 <= Len(text)
    /\ \A p \in 1..Len(word) : text[pos + p - 1] = word[p]

RECURSIVE CanStand(_, _, _, _, _, _)
\* the chunks texts can stand in text in order, each starting at or after position
\* from and after the start of the one before (after its end when apart), so that
\* every position after done that is left in no chunk holds a character of gaps
CanStand(text, texts, from, done, gaps, apart) ==
    IF texts = <<>>
    THEN \A p \in (done + 1)..Len(text) : text[p] \in gaps
    ELSE \E pos \in from..Len(text) :
            /\ StandsAt(Head(texts), text, pos)
            /\ \A p \in (done + 1)..(pos - 1) : text[p] \in gaps
            /\ CanStand(text, Tail(texts),
                        IF apart THEN pos + Len(Head(texts)) ELSE pos + 1,
                        IF pos + Len(Head(texts)) - 1 > done
                        THEN pos + Len(Head(texts)) - 1 ELSE done,
                        gaps, apart)

SplitReturned == pc = "returned" /\ call.op = "split_text"

\* C20 as stated: the chunks of a document cover its whole text: put end to end
\* with the overlaps removed they give the text back, no character left out, and
\* an empty document yields zero chunks.
C20_ChunksReconstructText ==
    SplitReturned =>
        /\ CanStand(call.text, outcome.texts, 1, 0, {}, FALSE)
        /\ call.text = <<>> => outcome.texts = <<>>

\* C20 amended: the chunks of a document are pieces of its text in document
\* order that cover every character that is not whitespace; an empty document
\* yields zero chunks.
C20_ChunksCoverNonWhitespace ==
    SplitReturned =>
        /\ CanStand(call.text, outcome.texts, 1, 0, Whitespace, FALSE)
        /\ call.text = <<>> => outcome.texts = <<>>

\* C20 witness: a text has been split into several chunks that cannot stand in it
\* without two of them overlapping, nor without a blank left in no chunk.
C20_Witness ==
    /\ SplitReturned
    /\ Len(outcome.texts) >= 3
    /\ ~CanStand(call.text, outcome.texts, 1, 0, Whitespace, TRUE)
    /\ ~CanStand(call.text, outcome.texts, 1, 0, {}, FALSE)

(***************************************************************************)
(* The quotation price calculator: POST /quote of src/src/app.py and of    *)
(* the earlier src/app.py.                                                 *)
(*                                                                         *)
(* Money is counted in whole units: a unit_cost and a returned price are   *)
(* numbers of hundredths, the product unit_cost * (1 + margin_pct / 100)   *)
(* is a number of ten-thousandths.  margin_pct is a whole percentage.      *)
(***************************************************************************)
\* the longest list of items of a request
MaxItems == 2

\* the two applications that serve POST /quote
Apps == {"src/src/app.py", "src/app.py"}

\* the way the binary value of a product that lies half way between two
\* hundredths falls
Ties == {"down", "up"}

\* round(x, 2) of Python on a float whose decimal value is x ten-thousandths,
\* in hundredths.  The float is the nearest binary value to the decimal one: it
\* rounds to the nearest hundredth, and half way between two it goes to the
\* side its binary value lies on
round(x, tie) ==
    LET whole == x \div 100
        rest == x % 100
    IN  IF rest < 50 THEN whole
        ELSE IF rest > 50 THEN whole + 1
        ELSE IF tie = "up" THEN whole + 1 ELSE whole

\* LineItem: qty > 0, unit_cost > 0, 0 <= margin_pct <= 100
LineItems ==
    [qty : {1, 40, 120}, unit_cost : {1, 9550, 24000}, margin_pct : {18, 22, 50}]

\* QuoteRequest.items: a list of LineItem, which may be empty
ItemLists == UNION {[1..n -> LineItems] : n \in 0..MaxItems}

\* the price of a line computed from the rounded price of a unit
calculate_line_item_prices_from_returned_unit(item, ties) ==
    LET price_per_unit == item.unit_cost * (100 + item.margin_pct)
    IN  <<round(price_per_unit, ties[1]),
          round(price_per_unit, ties[1]) * item.qty>>

\* calculate_line_item_prices(item): the rounded price of a unit and the rounded
\* price of the line, the second computed from the price of a unit before it is
\* rounded.  A product by a qty of 1 is the same float, and rounds the same way
calculate_line_item_prices(item, ties) ==
    LET price_per_unit == item.unit_cost * (100 + item.margin_pct)
        price_per_line == price_per_unit * item.qty
    IN  <<round(price_per_unit, ties[1]),
          round(price_per_line, IF item.qty = 1 THEN ties[1] ELSE ties[2])>>

\* the sum of the price_per_line of the line items
RECURSIVE sum_price_per_line(_)
sum_price_per_line(line_items) ==
    IF line_items = <<>> THEN 0
    ELSE line_items[1].price_per_line + sum_price_per_line(Tail(line_items))

\* the loop of create_quote in src/src/app.py over request.items
quoted_lines(items, ties) ==
    [i \in 1..Len(items) |->
        LET prices == calculate_line_item_prices(items[i], ties[i])
        IN  [qty |-> items[i].qty,
             unit_cost |-> items[i].unit_cost,
             margin_pct |-> items[i].margin_pct,
             price_per_unit |-> prices[1],
             price_per_line |-> prices[2]]] \o <<>>

\* create_quote of src/src/app.py: the response for a validated request.  The
\* subtotal is the sum of prices that are hundredths, and round(subtotal, 2)
\* is that sum
create_quote_run(items, ties) ==
    IF items = <<>>
    THEN [line_items |-> <<>>, subtotal |-> 0, grand_total |-> 0]
    ELSE LET line_items == quoted_lines(items, ties)
             subtotal == sum_price_per_line(line_items)
         IN  [line_items |-> line_items, subtotal |-> subtotal,
              grand_total |-> subtotal]

\* create_quote of src/app.py: one rounded price per line, no price of a unit
app_create_quote_run(items, ties) ==
    LET line_items ==
            [i \in 1..Len(items) |->
                [qty |-> items[i].qty,
                 unit_cost |-> items[i].unit_cost,
                 margin_pct |-> items[i].margin_pct,
                 price_per_line |->
                    round(items[i].unit_cost * (100 + items[i].margin_pct)
                             * items[i].qty, ties[i][2])]] \o <<>>
    IN  [line_items |-> line_items,
         grand_total |-> sum_price_per_line(line_items)]

\* no pipeline is built where the other services of the repository run
NoPipeline ==
    /\ FAISS_AVAILABLE = TRUE
    /\ PYTHONHASHSEED = 0
    /\ document_paths = <<>>
    /\ chunk_size = 500
    /\ chunk_overlap = 50
    /\ documents = <<>>
    /\ chunks = <<>>
    /\ embeddings = <<>>
    /\ index = None
    /\ source_map = <<>>

InitQuote ==
    /\ NoPipeline
    /\ pc = "called"
    /\ \E app \in Apps, items \in ItemLists :
            call = [op |-> "create_quote", app |-> app, items |-> items]
    /\ outcome = None
    /\ services = None
    /\ files = None

\* POST /quote of src/src/app.py answers
create_quote ==
    /\ pc = "called"
    /\ call.op = "create_quote"
    /\ call.app = "src/src/app.py"
    /\ \E ties \in [1..Len(call.items) -> Ties \X Ties] :
            outcome' = [kind |-> "return"] @@ create_quote_run(call.items, ties)
    /\ pc' = "returned"
    /\ UNCHANGED <<services, files, FAISS_AVAILABLE, PYTHONHASHSEED,
                   document_paths, chunk_size, chunk_overlap, pipeline, call>>

\* POST /quote of src/app.py answers
app_create_quote ==
    /\ pc = "called"
    /\ call.op = "create_quote"
    /\ call.app = "src/app.py"
    /\ \E ties \in [1..Len(call.items) -> Ties \X Ties] :
            outcome' = [kind |-> "return"] @@ app_create_quote_run(call.items, ties)
    /\ pc' = "returned"
    /\ UNCHANGED <<services, files, FAISS_AVAILABLE, PYTHONHASHSEED,
                   document_paths, chunk_size, chunk_overlap, pipeline, call>>

NextQuote ==
    \/ create_quote
    \/ app_create_quote

SpecQuote == InitQuote /\ [][NextQuote]_vars

QuoteReturned == pc = "returned" /\ call.op = "create_quote"

C22_LineIsReturnedUnitTimesQty ==
    (QuoteReturned /\ call.app = "src/src/app.py") =>
        \A i \in 1..Len(outcome.line_items) :
            outcome.line_items[i].price_per_line =
                outcome.line_items[i].price_per_unit * outcome.line_items[i].qty

(***************************************************************************)
(* The e-mail parser of the RFQ workflow: EmailParser.create_mock_email    *)
(* and EmailParser.parse_email of src/src/services/email_parser.py, with   *)
(* what the email package of Python does to the headers, the parameters    *)
(* and the payloads they hand to it.                                       *)
(*                                                                         *)
(* A payload is a sequence of bytes, each a number below 256.  A header    *)
(* value and a file name are sequences of pieces, as texts are.            *)
(***************************************************************************)
\* the longest list of attachments of a mock e-mail
MaxAttachments == 2

\* the subject and the sender of the test, literals of tests/test_task_1.py; the
\* dash of the subject is the em dash U+2014
TestSubject == <<"RFQ U+2014 Streetlight Poles">>

TestSender == <<"omar@client.com">>

\* the blanks the email package drops around a header value
HeaderBlanks == {" "}

\* the characters that make the email package quote a display name
Specials == {".", ",", ":", ";", "@", "(", ")", "[", "]"}

\* base64.b64encode of at most three bytes: four characters, each the number of
\* its place in the base64 alphabet, 64 for the padding "="
b64encode_group(bytes) ==
    LET b(i) == IF i <= Len(bytes) THEN bytes[i] ELSE 0
        n == b(1) * 65536 + b(2) * 256 + b(3)
    IN  <<n \div 262144,
          (n \div 4096) % 64,
          IF Len(bytes) >= 2 THEN (n \div 64) % 64 ELSE 64,
          IF Len(bytes) >= 3 THEN n % 64 ELSE 64>>

RECURSIVE b64encode(_)
\* Content-Transfer-Encoding: base64 of a payload
b64encode(bytes) ==
    IF bytes = <<>> THEN <<>>
    ELSE IF Len(bytes) <= 3 THEN b64encode_group(bytes)
    ELSE b64encode_group(SubSeq(bytes, 1, 3)) \o b64encode(SubSeq(bytes, 4, Len(bytes)))

\* the bytes four base64 characters stand for
b64decode_group(cs) ==
    LET v(i) == IF cs[i] = 64 THEN 0 ELSE cs[i]
        n == v(1) * 262144 + v(2) * 4096 + v(3) * 64 + v(4)
        all == <<n \div 65536, (n \div 256) % 256, n % 256>>
    IN  IF cs[3] = 64 THEN SubSeq(all, 1, 1)
        ELSE IF cs[4] = 64 THEN SubSeq(all, 1, 2)
        ELSE all

RECURSIVE b64decode(_)
\* part.get_payload(decode=True) of a base64 part
b64decode(cs) ==
    IF Len(cs) < 4 THEN <<>>
    ELSE b64decode_group(SubSeq(cs, 1, 4)) \o b64decode(SubSeq(cs, 5, Len(cs)))

\* an unstructured header value as the parser gives it back: the blanks before
\* it are gone
unstructured_header(value) == lstrip(value, HeaderBlanks)

\* an address header value as the email package writes it: the blanks around
\* it are gone, an address in angle brackets with no display name stands bare
\* and a display name with a special character is quoted
address_header(value) ==
    LET v == strip(value, HeaderBlanks)
    IN  IF v # <<>> /\ v[Len(v)] = ">" /\ "<" \in Range(v)
        THEN LET open == CHOOSE i \in 1..Len(v) :
                            v[i] = "<" /\ \A j \in 1..(i - 1) : v[j] # "<"
                 name == strip(SubSeq(v, 1, open - 1), HeaderBlanks)
                 addr == SubSeq(v, open + 1, Len(v) - 1)
             IN  IF name = <<>> THEN addr
                 ELSE (IF Range(name) \cap Specials # {}
                       THEN <<"\"">> \o name \o <<"\"">>
                       ELSE name) \o <<" ", "<">> \o addr \o <<">">>
        ELSE v

\* part.get_filename(): the filename parameter without the blanks around it
get_filename(part) == strip(part.filename, HeaderBlanks)

\* filename.split('.')[-1] where '.' is in filename
last_extension(filename) ==
    LET dot == CHOOSE i \in 1..Len(filename) :
                  filename[i] = "." /\ \A j \in (i + 1)..Len(filename) : filename[j] # "."
    IN  SubSeq(filename, dot + 1, Len(filename))

\* the maintype and subtype create_mock_email gives an attachment
attachment_type(filename) ==
    IF "." \notin Range(filename)
    THEN [maintype |-> "application", subtype |-> "octet-stream"]
    ELSE LET ext == last_extension(filename)
         IN  IF ext = <<"pdf">> THEN [maintype |-> "application", subtype |-> "pdf"]
             ELSE IF ext \in {<<"jpg">>, <<"jpeg">>, <<"png">>, <<"gif">>}
                  THEN [maintype |-> "image", subtype |-> ext[1]]
                  ELSE [maintype |-> "application", subtype |-> "octet-stream"]

\* Content-Disposition: attachment
Attachment == [disposition |-> "attachment"]

\* msg.set_content(body): the text part, whose text ends with a line break
text_part(body) ==
    [content_type |-> [maintype |-> "text", subtype |-> "plain"],
     content_disposition |-> None,
     filename |-> <<>>,
     payload |-> IF body # <<>> /\ body[Len(body)] = "\n"
                 THEN body ELSE body \o <<"\n">>]

\* msg.add_attachment(content, maintype, subtype, filename): a base64 part
attachment_part(filename, content) ==
    [content_type |-> attachment_type(filename),
     content_disposition |-> Attachment,
     filename |-> filename,
     payload |-> b64encode(content)]

\* create_mock_email(subject, body, sender, attachments): the message written
\* out, its headers as the email package writes them and its parts in order
create_mock_email(subject, body, sender, attachments) ==
    [Subject |-> subject,
     From |-> address_header(sender),
     To |-> <<"alrouf@example.com">>,
     parts |-> <<text_part(body)>> \o
               [i \in 1..Len(attachments) |->
                   attachment_part(attachments[i][1], attachments[i][2])]]

\* reading the payload of the attachments as it stands in the message
parse_attachment_undecoded(part) ==
    [filename |-> get_filename(part),
     content_type |-> part.content_type,
     payload |-> part.payload]

\* the dictionary parse_email appends for an attachment part
parse_attachment(part) ==
    [filename |-> get_filename(part),
     content_type |-> part.content_type,
     payload |-> b64decode(part.payload)]

RECURSIVE parse_parts(_, _)
\* the loop of parse_email over msg.walk(), on the parts from the first on:
\* the plain body is the last text part, an attachment without a filename is
\* left out
parse_parts(parts, parsed) ==
    IF parts = <<>> THEN parsed
    ELSE LET part == Head(parts)
         IN  parse_parts(Tail(parts),
                IF part.content_disposition = Attachment
                THEN IF get_filename(part) # <<>>
                     THEN [parsed EXCEPT !.attachments =
                                            Append(@, parse_attachment(part))]
                     ELSE parsed
                ELSE IF part.content_type = [maintype |-> "text", subtype |-> "plain"]
                        /\ part.content_disposition = None
                THEN [parsed EXCEPT !.body_plain = part.payload]
                ELSE parsed)

\* parse_email(raw_email_content)
parse_email(raw_email_content) ==
    parse_parts(raw_email_content.parts,
                [subject |-> unstructured_header(raw_email_content.Subject),
                 sender |-> address_header(raw_email_content.From),
                 body_plain |-> <<>>,
                 body_html |-> <<>>,
                 attachments |-> <<>>])

\* the subjects of the mock e-mails: the subject of the test, alone, forwarded
\* and with a blank before or after it, a short subject, a blank and none
EmailSubjects ==
    {TestSubject, <<" ">> \o TestSubject, TestSubject \o <<" ">>,
     <<"F", "w", ":", " ">> \o TestSubject, <<"H", "i">>, <<" ">>, <<>>}

\* the senders: the address of the test, bare, in angle brackets, after a
\* display name with and without a special character, and before a blank
EmailSenders ==
    {TestSender,
     <<"<">> \o TestSender \o <<">">>,
     <<"O", " ", "<">> \o TestSender \o <<">">>,
     <<"E", ".", " ", "<">> \o TestSender \o <<">">>,
     TestSender \o <<" ">>}

EmailBodies == {<<"h", "i">>, <<"h", "i", "\n">>}

\* the file names of the attachments: the name of the test, with a blank before
\* it, an image, a name without extension and the empty name
FileNames ==
    {<<"specs", ".", "pdf">>, <<" ", "specs", ".", "pdf">>, <<"a", ".", "png">>,
     <<"noext">>, <<>>}

\* the (filename, content) pairs of the mock e-mails; the contents are "T" and a
\* line feed, bytes that are no text, and nothing
EmailAttachments ==
    (FileNames \X {<<84, 10>>, <<0, 255, 13, 10>>}) \cup {<<<<"noext">>, <<>>>>}

AttachmentLists == UNION {[1..n -> EmailAttachments] : n \in 0..MaxAttachments}

(***************************************************************************)
(* A mock e-mail is created and parsed.                                    *)
(***************************************************************************)
InitEmail ==
    /\ NoPipeline
    /\ pc = "called"
    /\ \E subject \in EmailSubjects, body \in EmailBodies, sender \in EmailSenders,
          attachments \in AttachmentLists :
            call = [op |-> "create_mock_email", subject |-> subject, body |-> body,
                    sender |-> sender, attachments |-> attachments]
    /\ outcome = None
    /\ services = None
    /\ files = None

\* email_parser.create_mock_email(subject, body, sender, attachments) returns
create_mock_email_returns ==
    /\ pc = "called"
    /\ call.op = "create_mock_email"
    /\ outcome' = [kind |-> "return",
                   raw |-> create_mock_email(call.subject, call.body, call.sender,
                                             call.attachments)]
    /\ pc' = "created"
    /\ UNCHANGED <<services, files, FAISS_AVAILABLE, PYTHONHASHSEED,
                   document_paths, chunk_size, chunk_overlap, pipeline, call>>

\* email_parser.parse_email(raw) returns for the message just created
parse_email_returns ==
    /\ pc = "created"
    /\ outcome' = [kind |-> "return", raw |-> outcome.raw,
                   parsed |-> parse_email(outcome.raw)]
    /\ pc' = "returned"
    /\ UNCHANGED <<services, files, FAISS_AVAILABLE, PYTHONHASHSEED,
                   document_paths, chunk_size, chunk_overlap, pipeline, call>>

NextEmail ==
    \/ create_mock_email_returns
    \/ parse_email_returns

SpecEmail == InitEmail /\ [][NextEmail]_vars

EmailParsed == pc = "returned" /\ call.op = "create_mock_email"

\* the (filename, payload) pairs of the attachments parse_email returned
ParsedPairs ==
    [i \in 1..Len(outcome.parsed.attachments) |->
        <<outcome.parsed.attachments[i].filename,
          outcome.parsed.attachments[i].payload>>]

NoBlankBefore(value) == value = <<>> \/ Head(value) \notin HeaderBlanks

\* a file name that is not empty and has no blank at either end
PlainFileName(filename) ==
    /\ filename # <<>>
    /\ Head(filename) \notin HeaderBlanks
    /\ filename[Len(filename)] \notin HeaderBlanks

\* a sender that is an address and nothing else
BareAddress(sender) ==
    /\ sender # <<>>
    /\ Range(sender) \cap (HeaderBlanks \cup {"<", ">", "\""}) = {}

MaxEmails == 1

\* the placeholder extract_fields returns for a field it does not find
NA == "N/A"

\* the body of the test
TestBody ==
    <<"Hello Alrouf, please ", "quote ", "120 pcs", " ",
      "streetlight model ALR-SL-90W", ". Needed in", " ", "Dammam", " within ",
      "4 weeks", ". Attach specs. ", "Regards,", " ", "Eng. Omar", ", ",
      "+9665XXXX", ", ", "omar@client.com">>

\* the body of the test without the telephone number and the address
BodyWithoutContact == SubSeq(TestBody, 1, 14)

\* a body that asks for no quotation
BodyWithoutRequest == <<"P", "l", "e", "a", "s", "e", " ", "c", "a", "l", "l">>

\* the pieces \d+ pcs, \w+, \d+ weeks, \S+@\S+\.\S+ and \+9665\d{8} match
QuantityPieces == {"120 pcs"}

WordPieces == {"Dammam"}

DeliveryPieces == {"4 weeks"}

AddressPieces == {"omar@client.com"}

PhonePieces == {"+966512345678"}

\* re.search of a pattern that is a phrase, gap pieces and then a piece of the
\* set: the piece found, or the placeholder
piece_after(body, phrase, gap, pieces) ==
    LET found == {i \in 1..Len(body) :
                     /\ body[i] = phrase
                     /\ i + gap <= Len(body)
                     /\ body[i + gap] \in pieces}
    IN  IF found = {} THEN NA
        ELSE body[(CHOOSE i \in found : \A j \in found : i <= j) + gap]

\* re.search of a pattern that is a piece of the set, anywhere in the body
first_piece(body, pieces) ==
    LET found == {i \in 1..Len(body) : body[i] \in pieces}
    IN  IF found = {} THEN NA
        ELSE body[CHOOSE i \in found : \A j \in found : i <= j]

\* the dictionary extract_fields returns when it extracts nothing
NoFields ==
    [product |-> NA, quantity |-> NA, location |-> NA, delivery_time |-> NA,
     contact_person |-> NA, contact_email |-> NA, contact_phone |-> NA]

\* MockLLMService.extract_fields(subject, body)
extract_fields(subject, body) ==
    IF contains(subject, TestSubject)
    THEN [product |->
             IF piece_after(body, "quote ", 1, QuantityPieces) # NA
             THEN piece_after(body, "quote ", 3, Range(body) \ {". Needed in", "\n"})
             ELSE NA,
          quantity |-> piece_after(body, "quote ", 1, QuantityPieces),
          location |->
             IF " within " \in Range(body)
             THEN piece_after(body, ". Needed in", 2, WordPieces) ELSE NA,
          delivery_time |-> piece_after(body, " within ", 1, DeliveryPieces),
          contact_person |->
             piece_after(body, "Regards,", 2, Range(body) \ {"\n"}),
          contact_email |-> first_piece(body, AddressPieces),
          contact_phone |-> first_piece(body, PhonePieces)]
    ELSE NoFields

\* the truth value of a Python string
truthy(s) == s # ""

(***************************************************************************)
(* The mock connectors and their output files.                             *)
(***************************************************************************)
\* the names of the connector objects of process_rfq_email.py:14-19
ServiceNames ==
    {"llm_service", "google_sheets_service", "salesforce_crm_service",
     "google_drive_service", "email_sender_service", "alert_sender_service"}

\* the output files with nothing in them
NoFilesYet ==
    [sheets_log |-> <<>>, crm_log |-> <<>>, drive |-> {}, auto_reply |-> <<>>,
     alert_log |-> <<>>]

\* the output files as an earlier run of the workflow left them
EarlierFiles ==
    [sheets_log |-> <<[Timestamp |-> "earlier", Subject |-> <<"H", "i">>,
                       Sender |-> TestSender] @@ NoFields>>,
     crm_log |-> <<[Id |-> 1, Name |-> <<"RFQ: ", NA, " from ", NA>>,
                    StageName |-> "Qualification"]>>,
     drive |-> {[folder |-> <<"RFQ_", "today">>,
                 file_name |-> <<"specs", ".", "pdf">>, content |-> <<69>>]},
     auto_reply |-> <<[To |-> NA, Subject |-> <<"Re: ", "H", "i">>]>>,
     alert_log |-> <<[channel |-> "#rfq_alerts", message |-> <<"earlier">>]>>]

\* the connector objects the module creates when it is imported: a mock for
\* every setting MOCK_..._ENABLED that is on, None for the others; the Sheets
\* and the CRM mocks load their files
services_created(enabled, disk) ==
    [name \in ServiceNames |->
        IF name \notin enabled THEN None
        ELSE IF name = "google_sheets_service" THEN [data |-> disk.sheets_log]
        ELSE IF name = "salesforce_crm_service"
             THEN [opportunities |-> disk.crm_log]
        ELSE [mock |-> name]]

\* MockGoogleSheetsService.append_row: self.data after the append
append_row_data(service, row_data) == Append(service.data, row_data)

\* MockSalesforceCRMService.create_opportunity: self.opportunities after it
create_opportunity_list(service, opportunity_data) ==
    Append(service.opportunities,
           [Id |-> Len(service.opportunities) + 1,
            Name |-> opportunity_data.Name,
            StageName |-> opportunity_data.StageName,
            CloseDate |-> opportunity_data.CloseDate,
            Amount |-> opportunity_data.Amount,
            Description |-> opportunity_data.Description,
            CreatedDate |-> "now"])

\* MockGoogleDriveService.archive_attachment: the folder tree after the file is
\* written at target_folder_name/file_name, over a file that is there already
archive_attachment(drive, file_name, file_content, target_folder_name) ==
    {f \in drive : ~(f.folder = target_folder_name /\ f.file_name = file_name)}
    \cup {[folder |-> target_folder_name, file_name |-> file_name,
           content |-> file_content]}

\* MockEmailSenderService.send_email: the entry added to the sample file
send_email(recipient, subject, body) ==
    [To |-> recipient, Subject |-> subject, ContentType |-> "text/plain",
     Body |-> body]

\* MockAlertSenderService.send_alert: the line added to the alert log
send_alert(message, channel) ==
    [timestamp |-> "now", channel |-> channel, message |-> message]

\* the five connector steps of process_rfq_email by the line they start at, in
\* the order of the statements
ConnectorSteps == <<"line38", "line48", "line60", "line65", "line75">>

\* a function body whose alert comes right after the CRM opportunity
step_after_with_early_alert(line) ==
    CASE line = "line25" -> "line38"
      [] line = "line38" -> "line48"
      [] line = "line48" -> "line75"
      [] line = "line75" -> "line60"
      [] line = "line60" -> "line65"
      [] line = "line65" -> "returned"

\* the statement control reaches when the step at a line is over
step_after(line) ==
    CASE line = "line25" -> "line38"
      [] line = "line38" -> "line48"
      [] line = "line48" -> "line60"
      [] line = "line60" -> "line65"
      [] line = "line65" -> "line75"
      [] line = "line75" -> "returned"

\* control leaves the step at a line: the next statement, or the return of None
leaves(line) ==
    /\ pc' = step_after(line)
    /\ outcome' = IF step_after(line) = "returned"
                  THEN [kind |-> "return"] ELSE outcome

\* f"RFQ_{datetime.date.today().isoformat()}"
target_folder_name == <<"RFQ_", "today">>

\* sheet_row of step 3
sheet_row(locals) ==
    [Timestamp |-> "now", Subject |-> locals.subject, Sender |-> locals.sender]
    @@ locals.extracted_fields

\* opportunity_data of step 4
opportunity_data_of(locals) ==
    LET fields == locals.extracted_fields
    IN  [Name |-> <<"RFQ: ", fields.product, " from ", fields.contact_person>>,
         StageName |-> "Qualification",
         CloseDate |-> "today + 4 weeks",
         Description |-> <<"RFQ for ", fields.quantity, " ", fields.product,
                           ". Needed in ", fields.location, " within ",
                           fields.delivery_time, ". Contact: ",
                           fields.contact_email>>,
         Amount |-> None]

\* reply_subject and reply_body_en of step 6
reply_subject_of(locals) == <<"Re: ">> \o locals.subject

reply_body_en_of(locals) ==
    <<"Hello ", locals.extracted_fields.contact_person,
      ",\n\nThank you for your inquiry regarding ",
      locals.extracted_fields.product,
      ". We have received your request and will get back to you shortly.\n\nBest regards,\nAlrouf Team\n">>

\* alert_message of step 7
alert_message_of(locals) ==
    <<"New RFQ received: '">> \o locals.subject \o <<"' from ">> \o locals.sender
    \o <<". Fields extracted: ", locals.extracted_fields.product, ", ",
         locals.extracted_fields.quantity, ".">>

\* the e-mails the workflow is given
RfqEmails ==
    {create_mock_email(subject, body, TestSender, attachments) :
        subject \in {TestSubject, <<"H", "i">>},
        body \in {TestBody, BodyWithoutContact},
        attachments \in
            {<<>>,
             << <<<<"specs", ".", "pdf">>, <<84, 10>>>> >>,
             << <<<<"specs", ".", "pdf">>, <<84, 10>>>>,
                <<<<"specs", ".", "pdf">>, <<0, 255, 13, 10>>>> >>,
             << <<<<>>, <<84, 10>>>>, <<<<"a", ".", "png">>, <<0, 255, 13, 10>>>> >>}}

\* the settings MOCK_..._ENABLED of config.py that are on
EnabledSets ==
    {ServiceNames,
     ServiceNames \ {"llm_service"},
     ServiceNames \ {"google_sheets_service", "email_sender_service"},
     ServiceNames \ {"salesforce_crm_service", "google_drive_service"},
     {"llm_service", "google_sheets_service"}}

InitRfq ==
    /\ NoPipeline
    /\ pc = "idle"
    /\ call = [n |-> 0]
    /\ outcome = None
    /\ files \in {NoFilesYet, EarlierFiles}
    /\ \E enabled \in EnabledSets : services = services_created(enabled, files)

\* process_rfq_email(raw_email_content) is called; entry is the state of the
\* output files at the call
process_rfq_email_called ==
    /\ pc \in {"idle", "returned"}
    /\ call.n < MaxEmails
    /\ \E raw \in RfqEmails :
            call' = [n |-> call.n + 1, raw_email_content |-> raw, entry |-> files]
    /\ pc' = "line25"
    /\ outcome' = None
    /\ UNCHANGED <<services, files, FAISS_AVAILABLE, PYTHONHASHSEED,
                   document_paths, chunk_size, chunk_overlap, pipeline>>

\* steps 1 and 2: the e-mail is parsed and its fields are extracted; without
\* an extractor the call on None raises
rfq_parses_and_extracts ==
    /\ pc = "line25"
    /\ IF services.llm_service = None
       THEN /\ pc' = "returned"
            /\ outcome' = [kind |-> "raise", at |-> "line34"]
            /\ UNCHANGED call
       ELSE /\ LET parsed_email == parse_email(call.raw_email_content)
               IN  call' = call @@
                      [subject |-> parsed_email.subject,
                       body_plain |-> parsed_email.body_plain,
                       sender |-> parsed_email.sender,
                       attachments |-> parsed_email.attachments,
                       archived |-> 0,
                       extracted_fields |->
                          extract_fields(parsed_email.subject,
                                         parsed_email.body_plain)]
            /\ pc' = step_after("line25")
            /\ UNCHANGED outcome
    /\ UNCHANGED <<services, files, FAISS_AVAILABLE, PYTHONHASHSEED,
                   document_paths, chunk_size, chunk_overlap, pipeline>>

\* step 3: the row is appended to the Sheets mock, which rewrites its file
rfq_writes_row ==
    /\ pc = "line38"
    /\ IF services.google_sheets_service = None
       THEN UNCHANGED <<services, files>>
       ELSE LET data == append_row_data(services.google_sheets_service,
                                        sheet_row(call))
            IN  /\ services' = [services EXCEPT
                                   !.google_sheets_service = [data |-> data]]
                /\ files' = [files EXCEPT !.sheets_log = data]
    /\ leaves("line38")
    /\ UNCHANGED <<FAISS_AVAILABLE, PYTHONHASHSEED, document_paths, chunk_size,
                   chunk_overlap, pipeline, call>>

\* step 4: the opportunity is created in the CRM mock, which rewrites its file
rfq_creates_opportunity ==
    /\ pc = "line48"
    /\ IF services.salesforce_crm_service = None
       THEN UNCHANGED <<services, files>>
       ELSE LET opportunities ==
                    create_opportunity_list(services.salesforce_crm_service,
                                            opportunity_data_of(call))
            IN  /\ services' = [services EXCEPT !.salesforce_crm_service =
                                   [opportunities |-> opportunities]]
                /\ files' = [files EXCEPT !.crm_log = opportunities]
    /\ leaves("line48")
    /\ UNCHANGED <<FAISS_AVAILABLE, PYTHONHASHSEED, document_paths, chunk_size,
                   chunk_overlap, pipeline, call>>

\* step 5: one turn of the loop over the attachments, or the end of the step
rfq_archives ==
    /\ pc = "line60"
    /\ IF services.google_drive_service = None
          \/ call.archived = Len(call.attachments)
       THEN /\ leaves("line60")
            /\ UNCHANGED <<files, call>>
       ELSE LET attachment == call.attachments[call.archived + 1]
            IN  /\ files' = [files EXCEPT !.drive =
                                archive_attachment(@, attachment.filename,
                                                   attachment.payload,
                                                   target_folder_name)]
                /\ call' = [call EXCEPT !.archived = @ + 1]
                /\ UNCHANGED <<pc, outcome>>
    /\ UNCHANGED <<services, FAISS_AVAILABLE, PYTHONHASHSEED, document_paths,
                   chunk_size, chunk_overlap, pipeline>>

\* the auto-reply of step 6 is sent for these locals
replies(locals) ==
    /\ services.email_sender_service # None
    /\ truthy(locals.extracted_fields.contact_email)

\* step 6: the auto-reply in English is sent to the extracted contact e-mail
rfq_replies ==
    /\ pc = "line65"
    /\ IF replies(call)
       THEN files' = [files EXCEPT !.auto_reply =
                         Append(@, send_email(call.extracted_fields.contact_email,
                                              reply_subject_of(call),
                                              reply_body_en_of(call)))]
       ELSE UNCHANGED files
    /\ leaves("line65")
    /\ UNCHANGED <<services, FAISS_AVAILABLE, PYTHONHASHSEED, document_paths,
                   chunk_size, chunk_overlap, pipeline, call>>

\* step 7: the internal alert is posted
rfq_alerts ==
    /\ pc = "line75"
    /\ IF services.alert_sender_service # None
       THEN files' = [files EXCEPT !.alert_log =
                         Append(@, send_alert(alert_message_of(call),
                                              "#rfq_alerts"))]
       ELSE UNCHANGED files
    /\ leaves("line75")
    /\ UNCHANGED <<services, FAISS_AVAILABLE, PYTHONHASHSEED, document_paths,
                   chunk_size, chunk_overlap, pipeline, call>>

\* the connector call of the step at a line is made for these locals
connector_called(line, locals) ==
    CASE line = "line38" -> services.google_sheets_service # None
      [] line = "line48" -> services.salesforce_crm_service # None
      [] line = "line60" -> /\ services.google_drive_service # None
                            /\ locals.archived < Len(locals.attachments)
      [] line = "line65" -> replies(locals)
      [] line = "line75" -> services.alert_sender_service # None

\* the connector call of a step raises when it opens its output file, and the
\* exception leaves process_rfq_email, which catches nothing: the Sheets and the
\* CRM mocks have appended to their lists, no file is written
rfq_connector_raises ==
    /\ pc \in Range(ConnectorSteps)
    /\ connector_called(pc, call)
    /\ services' =
          IF pc = "line38"
          THEN [services EXCEPT !.google_sheets_service =
                   [data |-> append_row_data(@, sheet_row(call))]]
          ELSE IF pc = "line48"
          THEN [services EXCEPT !.salesforce_crm_service =
                   [opportunities |->
                       create_opportunity_list(@, opportunity_data_of(call))]]
          ELSE services
    /\ outcome' = [kind |-> "raise", at |-> pc]
    /\ pc' = "returned"
    /\ UNCHANGED <<files, FAISS_AVAILABLE, PYTHONHASHSEED, document_paths,
                   chunk_size, chunk_overlap, pipeline, call>>

NextRfq ==
    \/ process_rfq_email_called
    \/ rfq_parses_and_extracts
    \/ rfq_writes_row
    \/ rfq_creates_opportunity
    \/ rfq_archives
    \/ rfq_replies
    \/ rfq_alerts
    \/ rfq_connector_raises

SpecRfq == InitRfq /\ [][NextRfq]_vars

\* process_rfq_email has returned None to its caller
RfqReturned == pc = "returned" /\ outcome = [kind |-> "return"]

\* every setting MOCK_..._ENABLED is on
AllConnectorsEnabled == \A name \in ServiceNames : services[name] # None

\* the last element of a list
Last(list) == list[Len(list)]

\* the e-mail of the call as the parser reads it, and the fields extracted from it
EmailOfCall == parse_email(call.raw_email_content)

FieldsOfCall == extract_fields(EmailOfCall.subject, EmailOfCall.body_plain)

\* C23: when process_rfq_email returns for an RFQ e-mail with all mock
\* connectors enabled, the last row of the Sheets log carries that e-mail's
\* subject, sender and extracted fields, the last CRM opportunity is named
\* 'RFQ: <product> from <contact_person>' with stage 'Qualification', each
\* attachment has been archived with byte-identical content, and one auto-reply
\* addressed to the extracted contact e-mail with subject 'Re: <subject>' and one
\* alert on '#rfq_alerts' have been recorded.
C23_WorkflowRecordsTheEmail ==
    (RfqReturned /\ AllConnectorsEnabled) =>
        /\ files.sheets_log # <<>>
        /\ Last(files.sheets_log).Subject = EmailOfCall.subject
        /\ Last(files.sheets_log).Sender = EmailOfCall.sender
        /\ \A field \in DOMAIN FieldsOfCall :
              Last(files.sheets_log)[field] = FieldsOfCall[field]
        /\ files.crm_log # <<>>
        /\ Last(files.crm_log).Name =
              <<"RFQ: ", FieldsOfCall.product, " from ", FieldsOfCall.contact_person>>
        /\ Last(files.crm_log).StageName = "Qualification"
        /\ \A i \in 1..Len(EmailOfCall.attachments) :
              \E f \in files.drive :
                  /\ f.file_name = EmailOfCall.attachments[i].filename
                  /\ f.content = EmailOfCall.attachments[i].payload
        /\ Len(files.auto_reply) = Len(call.entry.auto_reply) + 1
        /\ Last(files.auto_reply).To = FieldsOfCall.contact_email
        /\ Last(files.auto_reply).Subject = <<"Re: ">> \o EmailOfCall.subject
        /\ Len(files.alert_log) = Len(call.entry.alert_log) + 1
        /\ Last(files.alert_log).channel = "#rfq_alerts"

\* the auto-replies recorded since process_rfq_email was called
RepliesOfCall ==
    SubSeq(files.auto_reply, Len(call.entry.auto_reply) + 1, Len(files.auto_reply))

\* C28: process_rfq_email sends an auto-reply only when a contact e-mail address
\* was extracted from the e-mail: when the extractor returns its 'N/A'
\* placeholders no auto-reply is sent, and no e-mail is addressed to a
\* placeholder value.
C28_ReplyOnlyToExtractedAddress ==
    pc # "idle" =>
        /\ \A i \in 1..Len(RepliesOfCall) : RepliesOfCall[i].To # NA
        /\ FieldsOfCall.contact_email = NA => RepliesOfCall = <<>>

\* what each connector step of the call in progress has done to its output file
SheetsDone ==
    \/ services.google_sheets_service = None
    \/ /\ Len(files.sheets_log) > Len(call.entry.sheets_log)
       /\ Last(files.sheets_log).Subject = EmailOfCall.subject

CrmDone ==
    \/ services.salesforce_crm_service = None
    \/ /\ Len(files.crm_log) > Len(call.entry.crm_log)
       /\ Last(files.crm_log).Name =
             <<"RFQ: ", FieldsOfCall.product, " from ", FieldsOfCall.contact_person>>

DriveDone ==
    \/ services.google_drive_service = None
    \/ \A i \in 1..Len(EmailOfCall.attachments) :
          \E f \in files.drive :
              /\ f.folder = target_folder_name
              /\ f.file_name = EmailOfCall.attachments[i].filename

ReplyDone ==
    \/ services.email_sender_service = None
    \/ ~truthy(FieldsOfCall.contact_email)
    \/ /\ Len(files.auto_reply) = Len(call.entry.auto_reply) + 1
       /\ Last(files.auto_reply).Subject = <<"Re: ">> \o EmailOfCall.subject

SheetsUntouched == files.sheets_log = call.entry.sheets_log

CrmUntouched == files.crm_log = call.entry.crm_log

DriveUntouched == files.drive = call.entry.drive

ReplyUntouched == files.auto_reply = call.entry.auto_reply

AlertUntouched == files.alert_log = call.entry.alert_log

\* an exception raised at a line has left process_rfq_email
RaisedAt(line) == pc = "returned" /\ outcome = [kind |-> "raise", at |-> line]

\* C29: the connector steps of process_rfq_email run in the order Sheets row,
\* CRM opportunity, Drive archive, auto-reply, internal alert: a step has a side
\* effect only after every earlier enabled step has completed, the alert last
\* of all, and when a step raises no later step has a side effect while those
\* of the earlier steps remain.
C29_StepsInOrderAndStopOnRaise ==
    pc # "idle" =>
        /\ ~AlertUntouched => SheetsDone /\ CrmDone /\ DriveDone /\ ReplyDone
        /\ ~ReplyUntouched => SheetsDone /\ CrmDone /\ DriveDone
        /\ ~DriveUntouched => SheetsDone /\ CrmDone
        /\ ~CrmUntouched => SheetsDone
        /\ RaisedAt("line34") =>
              /\ SheetsUntouched /\ CrmUntouched /\ DriveUntouched
              /\ ReplyUntouched /\ AlertUntouched
        /\ RaisedAt("line38") =>
              CrmUntouched /\ DriveUntouched /\ ReplyUntouched /\ AlertUntouched
        /\ RaisedAt("line48") =>
              SheetsDone /\ DriveUntouched /\ ReplyUntouched /\ AlertUntouched
        /\ RaisedAt("line60") =>
              SheetsDone /\ CrmDone /\ ReplyUntouched /\ AlertUntouched
        /\ RaisedAt("line65") =>
              SheetsDone /\ CrmDone /\ DriveDone /\ AlertUntouched
        /\ RaisedAt("line75") =>
              SheetsDone /\ CrmDone /\ DriveDone /\ ReplyDone /\ AlertUntouched

\* C29 witness: with every connector enabled the archive of the second
\* attachment has raised: the row, the opportunity and the first file are
\* written, no reply and no alert.
C29_Witness ==
    /\ RaisedAt("line60")
    /\ AllConnectorsEnabled
    /\ call.archived = 1
    /\ ~SheetsUntouched /\ ~CrmUntouched /\ ~DriveUntouched
    /\ ReplyUntouched /\ AlertUntouched

\* C25: the retrieved chunks of one query never contain the same chunk twice:
\* every hit of the index search is mapped to a distinct, valid chunk ordinal in
\* [0, number of chunks), and a 'no result' ordinal the index returns when top_k
\* exceeds the number of chunks is never mapped to a chunk.
C25_HitsAreDistinctChunks ==
    (QueryReturned /\ call.mode = "Indexed") =>
        LET hits == {p \in 1..Len(call.indices) :
                        call.indices[p] \in 0..(Len(chunks) - 1)}
        IN  /\ \A p, q \in hits : call.indices[p] = call.indices[q] => p = q
            /\ Len(call.retrieved_chunks_info) = Cardinality(hits)
            /\ Len(outcome.retrieved_chunks) = Cardinality(hits)

\* the languages the pieces of an answer and of a prompt are written in
MarkerLanguages(answer) ==
    {l \in {"en", "ar"} :
        (IF l = "en" THEN EnglishMarker ELSE ArabicMarker) \in Range(answer)}

BodyLanguages(answer) ==
    {l \in {"en", "ar"} :
        Range(answer) \cap (IF l = "en"
                            THEN {RefusalEn, NotDirectlyEn, BasedOnEn, RelatedEn}
                            ELSE {RefusalAr, NotDirectlyAr, BasedOnAr, RelatedAr})
            # {}}

PromptLanguages(prompt) ==
    {l \in {"en", "ar"} :
        prompt # <<>> /\
        prompt[1] = (IF l = "en" THEN prompt_template_en(<<>>, <<>>)[1]
                                 ELSE prompt_template_ar(<<>>, <<>>)[1])}

\* C26: for every language argument, values other than 'en' and 'ar' included,
\* the language of the answer's marker prefix, the language of the answer body
\* (relevant, not-relevant and refusal variants) and the language of the prompt
\* template all agree.
C26_OneLanguagePerAnswer ==
    ComposerReturned =>
        Cardinality(MarkerLanguages(outcome.answer)
                    \cup BodyLanguages(outcome.answer)
                    \cup PromptLanguages(outcome.prompt)) = 1


\* every whitespace-separated token of the text is a stop word (lower-cased,
\* without end marks) or is made of the characters '?!.,' only
OnlyStopWordsAndMarks(text) ==
    \A span \in TokenSpans(text) :
        LET token == [p \in 1..(span[2] - span[1] + 1) |->
                          lower_char(text[span[1] + p - 1])]
        IN  \/ \A p \in 1..Len(token) : token[p] \in StripChars
            \/ WithoutEndMarks(token) \in STOP_WORDS

\* C27: a query whose whitespace-separated tokens are all stop words or pure
\* punctuation from '?!.,' (for example 'What is it ?') is never judged relevant:
\* with a non-empty context the composer gives the "not directly answering"
\* answer, not the context-referencing one.
C27_StopWordsAndMarksNotRelevant ==
    (ComposerReturned /\ call.context # <<>>
                      /\ OnlyStopWordsAndMarks(call.query)) =>
        /\ outcome.answer[2] \in {NotDirectlyEn, NotDirectlyAr}
        /\ outcome.answer[2] \notin {BasedOnEn, BasedOnAr}


(***************************************************************************)
(* Two MockGoogleSheetsService objects on one output file                  *)
(***************************************************************************)

\* the number of append_row calls made in one run
MaxAppends == 3

\* the module-level Sheets connectors that are created on the default output
\* file logs/mock_sheets_log.json
SheetsInstances ==
    {"process_rfq_email.google_sheets_service", "test_task_1.sheets_service"}

\* the rows that are appended
SheetRows ==
    {sheet_row([subject |-> s, sender |-> TestSender, extracted_fields |-> NoFields]) :
        s \in {<<"H", "i">>, TestSubject}}

\* the states the output file is found in: not there, there without valid JSON
\* in it, there with an empty list, there with the row of an earlier run
SheetsFiles ==
    {[readable |-> "absent", sheets_log |-> <<>>],
     [readable |-> "malformed", sheets_log |-> <<>>],
     [readable |-> "json", sheets_log |-> <<>>],
     [readable |-> "json", sheets_log |-> EarlierFiles.sheets_log]}

\* MockGoogleSheetsService.__init__: self.data is the list of the file when the
\* file exists and holds valid JSON, the empty list otherwise
MockGoogleSheetsService(disk) ==
    [data |-> IF disk.readable = "json" THEN disk.sheets_log ELSE <<>>]

\* MockGoogleSheetsService.append_row: the row is appended to self.data and the
\* file is opened with 'w' and written from self.data
append_row(service, row_data) ==
    LET data == append_row_data(service, row_data)
    IN  [service |-> [data |-> data],
         disk |-> [readable |-> "json", sheets_log |-> data]]

InitSheets ==
    /\ NoPipeline
    /\ pc = "idle"
    /\ call = [appends |-> <<>>, loaded |-> <<>>]
    /\ outcome = None
    /\ services = <<>>
    /\ files \in SheetsFiles

\* a module that creates its Sheets connector is imported
sheets_service_created ==
    \E instance \in SheetsInstances :
        /\ instance \notin DOMAIN services
        /\ services' = services @@ (instance :> MockGoogleSheetsService(files))
        /\ call' = [call EXCEPT !.loaded =
                        call.loaded @@ (instance :> MockGoogleSheetsService(files).data)]
        /\ UNCHANGED <<files, pc, outcome, FAISS_AVAILABLE, PYTHONHASHSEED,
                       document_paths, chunk_size, chunk_overlap, documents,
                       chunks, source_map, embeddings, index>>

\* append_row is called on one of the connectors and returns
sheets_append_row ==
    \E instance \in SheetsInstances :
        \E row_data \in SheetRows :
            /\ instance \in DOMAIN services
            /\ Len(call.appends) < MaxAppends
            /\ services' = [services EXCEPT
                               ![instance] = append_row(services[instance], row_data).service]
            /\ files' = append_row(services[instance], row_data).disk
            /\ call' = [call EXCEPT !.appends =
                            Append(call.appends, [instance |-> instance, row_data |-> row_data])]
            /\ UNCHANGED <<pc, outcome, FAISS_AVAILABLE, PYTHONHASHSEED,
                           document_paths, chunk_size, chunk_overlap, documents,
                           chunks, source_map, embeddings, index>>

NextSheets == sheets_service_created \/ sheets_append_row

SpecSheets == InitSheets /\ [][NextSheets]_vars

\* the number of times row occurs in rows
Occurrences(rows, row) == Cardinality({p \in 1..Len(rows) : rows[p] = row})

\* the rows appended so far through one connector, in call order
AppendedThrough(instance) ==
    LET F[n \in 0..Len(call.appends)] ==
            IF n = 0 THEN <<>>
            ELSE IF call.appends[n].instance = instance
                 THEN Append(F[n - 1], call.appends[n].row_data)
                 ELSE F[n - 1]
    IN  F[Len(call.appends)]

\* C30: no appended row is lost from the Sheets log: after any interleaving of
\* append_row calls made through two connectors that share the output file, the
\* file holds every row appended through either of them, and when there is one
\* connector only, the file is the rows it loaded followed by all the appended
\* rows in call order.
C30_NoAppendedRowLost ==
    call.appends # <<>> =>
        /\ \A row \in SheetRows :
                Occurrences(files.sheets_log, row) >=
                    Occurrences([n \in 1..Len(call.appends) |-> call.appends[n].row_data], row)
        /\ \A instance \in DOMAIN services :
                DOMAIN services = {instance} =>
                    files.sheets_log = call.loaded[instance] \o AppendedThrough(instance)

\* the part of C30 about one connector
OneSheetsInstanceKeepsAllRows ==
    (call.appends # <<>> /\ Cardinality(DOMAIN services) = 1) => C30_NoAppendedRowLost

=============================================================================
